---- MODULE Spec2Model ----
(***************************************************************************)
(* A model of the cosy configuration library: the value tree, the deep    *)
(* merge engine, the include/extends resolver, the batch loader, the       *)
(* schema validator with its typo suggestions, and the text side: the      *)
(* lexer, the parser and the serializer.                                   *)
(*                                                                         *)
(* Every operation of the library is a synchronous call.  A behaviour of   *)
(* the model is one call: the caller's arguments are drawn in the initial  *)
(* state, the call's action runs the whole function, and the state after   *)
(* it holds what the function returned and what it mutated in place.       *)
(***************************************************************************)
EXTENDS Integers, Sequences, FiniteSets, TLC

VARIABLES
    pc,      \* where the caller is: before the call, inside the loader's loop, returned;
             \* for a text: parsed, serialized, reparsed, reserialized
    args,    \* the arguments the caller passed (never changed by the call)
    files,   \* the file system the call reads: path -> document, read error or parse error
    tree,    \* the tree the call mutates in place (merge's base, resolve's value, the loader's merged);
             \* for a text: what from_str returned for the serialized text
    ret,     \* what the call returned (Ok / Err, with its payload)
    reads,   \* the paths the call has passed to fs::read_to_string, in order;
             \* for a text: the second serialization
    stack,   \* the activations of the call in progress, the innermost last
    composed, \* the Object node resolve finished last: its layers and its merged map;
              \* for a text: the first serialization
    env      \* the environment of the process: name -> value, for the variables that are set

vars == <<pc, args, files, tree, ret, reads, stack, composed, env>>

None == [none |-> TRUE]

\* An environment in which no variable is set.
NoEnvironment == [name \in {} |-> ""]

(***************************************************************************)
(* Value and ValueKind (value.rs).  One record shape per kind; the kind   *)
(* field holds the name ValueKind::type_name gives.  The constructors are  *)
(* Value's helper constructors: a new value carries no comments.          *)
(***************************************************************************)
null == [kind |-> "null", comments |-> <<>>]
boolean(b) == [kind |-> "boolean", comments |-> <<>>, b |-> b]
integer(i) == [kind |-> "integer", comments |-> <<>>, i |-> i]
float(f) == [kind |-> "float", comments |-> <<>>, f |-> f]
string(s) == [kind |-> "string", comments |-> <<>>, s |-> s]
array(arr) == [kind |-> "array", comments |-> <<>>, items |-> arr]
object(obj) == [kind |-> "object", comments |-> <<>>, entries |-> obj]

\* Value::with_comments: the same kind, carrying the comment list c.
with_comments(v, c) == [v EXCEPT !.comments = c]

type_name(v) == v.kind

(***************************************************************************)
(* IndexMap<String, Value>: a sequence of <<key, value>> entries with     *)
(* unique keys, in insertion order.                                        *)
(***************************************************************************)
Keys(m) == [i \in 1..Len(m) |-> m[i][1]]
KeySet(m) == {m[i][1] : i \in 1..Len(m)}
contains_key(m, k) == k \in KeySet(m)
IndexOf(m, k) == CHOOSE i \in 1..Len(m) : m[i][1] = k
get(m, k) == m[IndexOf(m, k)][2]

\* An insert that moves an existing key to the end.
InsertLast(m, k, v) ==
    Append(SelectSeq(m, LAMBDA e : e[1] # k), <<k, v>>)

\* IndexMap::insert: an existing key keeps its position and takes the new
\* value, a new key goes to the end.
insert(m, k, v) ==
    IF contains_key(m, k)
    THEN [m EXCEPT ![IndexOf(m, k)] = <<k, v>>]
    ELSE Append(m, <<k, v>>)

\* IndexMap::shift_remove: the entry is removed, the others keep their order.
shift_remove(m, k) ==
    IF contains_key(m, k)
    THEN LET i == IndexOf(m, k)
         IN  SubSeq(m, 1, i - 1) \o SubSeq(m, i + 1, Len(m))
    ELSE m

(***************************************************************************)
(* merge (merge.rs).  Two objects are merged key by key, in the override's *)
(* order; anything else is replaced by the override, comments included.    *)
(***************************************************************************)
RECURSIVE merge(_, _)
RECURSIVE MergeEntries(_, _, _)

\* for (k, v) in override_map { ... }, from entry i on.
MergeEntries(base_map, override_map, i) ==
    IF i > Len(override_map) THEN base_map
    ELSE LET k == override_map[i][1]
             v == override_map[i][2]
             next == IF contains_key(base_map, k)
                     THEN [base_map EXCEPT ![IndexOf(base_map, k)] =
                               <<k, merge(get(base_map, k), v)>>]
                     ELSE insert(base_map, k, v)
         IN  MergeEntries(next, override_map, i + 1)

\* A merge that concatenates two arrays instead of replacing the base.
MergeConcat(base, override_val) ==
    IF base.kind = "object" /\ override_val.kind = "object"
    THEN [base EXCEPT !.entries = MergeEntries(base.entries, override_val.entries, 1)]
    ELSE IF base.kind = "array" /\ override_val.kind = "array"
    THEN [override_val EXCEPT !.items = base.items \o override_val.items]
    ELSE override_val

\* A merge that takes an existing key out of the base map and puts it back at
\* the end, as a remove-and-insert would.
MergeReinsert(base, override_val) ==
    LET RECURSIVE Loop(_, _)
        Loop(base_map, i) ==
            IF i > Len(override_val.entries) THEN base_map
            ELSE LET k == override_val.entries[i][1]
                     v == override_val.entries[i][2]
                 IN  Loop(IF contains_key(base_map, k)
                          THEN Append(shift_remove(base_map, k),
                                      <<k, merge(get(base_map, k), v)>>)
                          ELSE insert(base_map, k, v), i + 1)
    IN  IF base.kind = "object" /\ override_val.kind = "object"
        THEN [base EXCEPT !.entries = Loop(base.entries, 1)]
        ELSE override_val

\* A merge of two objects that keeps the comments of both sides.
MergeAppendComments(base, override_val) ==
    IF base.kind = "object" /\ override_val.kind = "object"
    THEN [base EXCEPT !.entries = MergeEntries(base.entries, override_val.entries, 1),
                      !.comments = base.comments \o override_val.comments]
    ELSE override_val

\* A merge of two objects that takes the comments of the override.
MergeOverrideComments(base, override_val) ==
    IF base.kind = "object" /\ override_val.kind = "object"
    THEN [base EXCEPT !.entries = MergeEntries(base.entries, override_val.entries, 1),
                      !.comments = override_val.comments]
    ELSE override_val

merge(base, override_val) ==
    IF base.kind = "object" /\ override_val.kind = "object"
    THEN [base EXCEPT !.entries = MergeEntries(base.entries, override_val.entries, 1)]
    ELSE override_val

(***************************************************************************)
(* Strings.  A string is the sequence of its characters, each a string of  *)
(* one character.                                                          *)
(***************************************************************************)
chars(str) == [i \in 1..Len(str) |-> SubSeq(str, i, i)]

RECURSIVE Concat(_)
Concat(cs) == IF cs = <<>> THEN "" ELSE Head(cs) \o Concat(Tail(cs))

(***************************************************************************)
(* Paths (std::path).  A path is held as the sequence of its components,   *)
(* as Path::components gives them: the root of an absolute path is the     *)
(* component "/", repeated and trailing separators yield nothing, and a    *)
(* `.` is kept only at the very beginning of a relative path; `..` stays a *)
(* component.  What the components leave out of the path's text matters    *)
(* when the path is opened: Locate below follows the text.                 *)
(***************************************************************************)
\* The pieces of cs between its separators, empty ones included; piece is
\* the one being read.
RECURSIVE SplitAt(_, _, _)
SplitAt(cs, i, piece) ==
    IF i > Len(cs) THEN <<Concat(piece)>>
    ELSE IF cs[i] = "/" THEN <<Concat(piece)>> \o SplitAt(cs, i + 1, <<>>)
    ELSE SplitAt(cs, i + 1, Append(piece, cs[i]))

\* The pieces that are components after the first place of a path.
RECURSIVE Kept(_)
Kept(pieces) ==
    IF pieces = <<>> THEN <<>>
    ELSE IF Head(pieces) \in {"", "."} THEN Kept(Tail(pieces))
    ELSE <<Head(pieces)>> \o Kept(Tail(pieces))

has_root(path_str) == Len(path_str) > 0 /\ SubSeq(path_str, 1, 1) = "/"

\* Path::new(path_str).components().
Components(path_str) ==
    IF path_str = "" THEN <<>>
    ELSE IF has_root(path_str) THEN <<"/">> \o Kept(SplitAt(chars(path_str), 1, <<>>))
    ELSE IF Head(SplitAt(chars(path_str), 1, <<>>)) = "."
    THEN <<".">> \o Kept(SplitAt(chars(path_str), 1, <<>>))
    ELSE Kept(SplitAt(chars(path_str), 1, <<>>))

\* base_path.join(path_str): an absolute path replaces the base, a relative
\* one is appended to it, where a `.` is no longer at the beginning.
join(base_path, path_str) ==
    IF has_root(path_str) \/ base_path = <<>> THEN Components(path_str)
    ELSE base_path \o Kept(SplitAt(chars(path_str), 1, <<>>))

(***************************************************************************)
(* The file system: a function from the places where something exists to   *)
(* what it is, a directory or a file, and for a file what reading and      *)
(* parsing it gives, a document or an error of the lexer or the parser.    *)
(* A place is a sequence of names below the directory relative paths start *)
(* from (<<>>), below a directory above that one (after one `..` for every *)
(* level) or below the root (after "/").                                   *)
(***************************************************************************)
Document(v) == [state |-> "parsed", doc |-> v]
Unparsable == [state |-> "unparsable", err |-> "Parse"]
\* A file whose text the lexer rejects: from_str returns CosynError::Lex.
Unlexable == [state |-> "unparsable", err |-> "Lex"]
\* A directory, possibly empty: fs::read_to_string fails on it.
Directory == [state |-> "directory"]

\* at is a directory of the file system fs: the root, the directory relative
\* paths start from and those above it, a directory listed in fs, and every
\* place something of fs lies below.
IsDirectory(fs, at) ==
    \/ at = <<"/">>
    \/ \A i \in 1..Len(at) : at[i] = ".."
    \/ at \in DOMAIN fs /\ fs[at].state = "directory"
    \/ \E q \in DOMAIN fs : Len(q) > Len(at) /\ SubSeq(q, 1, Len(at)) = at

\* The file the system opens when it is given the path whose pieces, from
\* the i-th on, remain to be followed from the place at; None when the
\* open fails.  Every piece is followed in a directory: a name leads to
\* what has that name there, `.` and an empty piece (a repeated or trailing
\* separator) stay, `..` leads to the directory above (the root is its own).
\* What is reached in the end must be a file: a path that ends in a
\* separator, in `.` or in `..` opens none.
RECURSIVE Walk(_, _, _, _)
Walk(fs, pieces, i, at) ==
    IF i > Len(pieces)
    THEN (IF at \in DOMAIN fs /\ fs[at].state # "directory" THEN [some |-> at] ELSE None)
    ELSE IF pieces[i] = "/" THEN Walk(fs, pieces, i + 1, <<"/">>)
    ELSE IF ~IsDirectory(fs, at) THEN None
    ELSE IF pieces[i] \in {"", "."} THEN Walk(fs, pieces, i + 1, at)
    ELSE IF pieces[i] = ".."
    THEN (IF at = <<"/">> THEN Walk(fs, pieces, i + 1, at)
          ELSE IF at = <<>> \/ at[Len(at)] = ".." THEN Walk(fs, pieces, i + 1, Append(at, ".."))
          ELSE Walk(fs, pieces, i + 1, SubSeq(at, 1, Len(at) - 1)))
    ELSE Walk(fs, pieces, i + 1, Append(at, pieces[i]))

\* fs::read_to_string(base_path.join(path_str)): the file opened, or None.
\* The system is given the text of the joined path, which is path_str as it
\* is written, its `.` pieces and its trailing separator included, after
\* base_path unless path_str is absolute.
Locate(fs, base_path, path_str) ==
    IF has_root(path_str)
    THEN Walk(fs, <<"/">> \o SplitAt(chars(path_str), 1, <<>>), 1, <<>>)
    ELSE Walk(fs, base_path \o SplitAt(chars(path_str), 1, <<>>), 1, <<>>)

\* The directory of the first document stays the base of every later one.
FirstDirectory(path) == SubSeq(path, 1, 1)

\* path.parent().unwrap_or(Path::new(".")), for the path of a file that was
\* read: a path that ends in a name has a parent, the path without it.
parent(path) == SubSeq(path, 1, Len(path) - 1)

(***************************************************************************)
(* resolve (include.rs).  resolve_recursive and load_and_resolve call each *)
(* other; the model keeps their activations on a call stack.  A frame of   *)
(* resolve_recursive holds the node it works on (its own copy, written     *)
(* back into the caller's node when it returns, which is what mutating in  *)
(* place through &mut gives), its arguments, and its locals.               *)
(***************************************************************************)
MAX_DEPTH == 10

\* A Result with what the callee left in the borrowed value.
Ok(v) == [err |-> "Ok", msg |-> <<>>, value |-> v]
Err(e, msg, v) == [err |-> e, msg |-> msg, value |-> v]

\* Every call of resolve_recursive counted as a level, nesting included.
ResolveFrameDeeper(value, base_path, depth) ==
    [fn |-> "resolve_recursive", at |-> "entry", value |-> value,
     base_path |-> base_path, depth |-> depth + 1, i |-> 0,
     extends_val |-> None, include_val |-> None,
     base_config |-> None, loaded_base |-> None, mixin_config |-> None]

\* The activation resolve_recursive(value, base_path, depth), at its entry.
ResolveFrame(value, base_path, depth) ==
    [fn |-> "resolve_recursive", at |-> "entry", value |-> value,
     base_path |-> base_path, depth |-> depth, i |-> 0,
     extends_val |-> None, include_val |-> None,
     base_config |-> None, loaded_base |-> None, mixin_config |-> None]

\* The activation load_and_resolve(path_str, base_path, depth), at its entry.
LoadFrame(path_str, base_path, depth) ==
    [fn |-> "load_and_resolve", at |-> "read", path_str |-> path_str,
     base_path |-> base_path, depth |-> depth,
     include_path |-> join(base_path, path_str)]

\* The mixin put under the base: the arguments of the merge swapped.
MergeMixinSwapped(base_config, mixin_config) == merge(mixin_config, base_config)

\* Step 4: merge::merge(&mut base_config, mixin_config).
MergeMixin(base_config, mixin_config) == merge(base_config, mixin_config)

\* The local fields put under the base: the arguments of the merge swapped.
MergeLocalSwapped(base_config, local_map) == merge(object(local_map), base_config)

\* Step 5: the local map, wrapped in a Value, is merged into base_config.
MergeLocal(base_config, local_map) ==
    LET local_overrides == object(local_map)
    IN  merge(base_config, local_overrides)

\* The directives stay in the map: a lookup where the code removes.
KeepDirective(map, key) == map

\* Step 1: map.shift_remove("extends") / map.shift_remove("include").
RemoveDirective(map, key) == shift_remove(map, key)

\* The guard lets one hop too few through.
LimitReachedEarly(depth) == depth >= MAX_DEPTH

\* No guard: the descent goes on as long as files name files.
LimitNever(depth) == FALSE

\* if depth > MAX_DEPTH { return Err(RecursionLimitExceeded) }
LimitExceeded(depth) == depth > MAX_DEPTH

\* The guard stops the descent without reporting it.
LimitSilent(value) == Ok(value)

\* return Err(IncludeError::RecursionLimitExceeded), the value untouched.
LimitResult(value) == Err("RecursionLimitExceeded", <<>>, value)

\* The node becomes the merged configuration, comments and all.
PutBackWhole(value, base_config) == base_config

\* Step 6: the merged map becomes the node's map; the local map was taken
\* out of the node in step 5.
PutBack(value, base_config) ==
    [value EXCEPT !.entries =
        IF base_config.kind = "object" THEN base_config.entries ELSE <<>>]

\* The remaining fields are left as they are: step 2 is skipped.
SkipNested(v) == FALSE

IsContainer(v) == v.kind \in {"object", "array"}

(***************************************************************************)
(* A return.  Deliver(stk, res) hands the Result res to the frame on top   *)
(* of stk, which continues after its call: a `?` passes an Err on to its   *)
(* own caller, so an error unwinds the stack frame by frame.  The outcome  *)
(* is the stack the run continues with, or the Result of the whole call.   *)
(***************************************************************************)
\* The accumulator merged into the file: the arguments of the merge swapped.
AccumulateSwapped(merged, current) == merge(current, merged)

\* load_and_merge: crate::merge::merge(&mut merged, current).
Accumulate(merged, current) == merge(merged, current)

Continue(stk, frame) == [returned |-> FALSE, stack |-> Append(stk, frame)]
Returned(res) == [returned |-> TRUE, res |-> res]

\* The local map is taken out of the node before its directives are handled.
AbandonedEmpty(value) == [value EXCEPT !.entries = <<>>]

\* The node a failed step 3 or 4 leaves behind: the return leaves the map as
\* steps 1 and 2 made it, the local map being taken out in step 5 only.
Abandoned(value) == value

RECURSIVE Unwind(_, _, _, _, _)
Unwind(stk, n, err, msg, value) ==
    IF n = 0 THEN Returned([err |-> err, msg |-> msg, value |-> value])
    ELSE
    LET caller == stk[n]
        below == SubSeq(stk, 1, n - 1)
    IN  CASE caller.fn = "resolve_recursive" /\ caller.at = "fields" ->
                 \* resolve_recursive(v, base_path, depth)?; on field i
                 LET node == [caller.value EXCEPT
                                 !.entries[caller.i] = <<@[1], value>>]
                 IN  IF err # "Ok"
                     THEN Unwind(stk, n - 1, err, msg, node)
                     ELSE Continue(below, [caller EXCEPT !.value = node, !.i = @ + 1])
          [] caller.fn = "resolve_recursive" /\ caller.at = "items" ->
                 \* resolve_recursive(v, base_path, depth)?; on element i
                 LET node == [caller.value EXCEPT !.items[caller.i] = value]
                 IN  IF err # "Ok"
                     THEN Unwind(stk, n - 1, err, msg, node)
                     ELSE Continue(below, [caller EXCEPT !.value = node, !.i = @ + 1])
          [] caller.fn = "resolve_recursive" /\ caller.at = "extends" ->
                 \* let mut base_config = load_and_resolve(..)?
                 IF err # "Ok"
                 THEN Unwind(stk, n - 1, err, msg, Abandoned(caller.value))
                 ELSE Continue(below, [caller EXCEPT !.base_config = value,
                                                     !.loaded_base = value,
                                                     !.at = "include"])
          [] caller.fn = "resolve_recursive" /\ caller.at = "include" ->
                 \* let mixin_config = load_and_resolve(..)?; merge into base_config
                 IF err # "Ok"
                 THEN Unwind(stk, n - 1, err, msg, Abandoned(caller.value))
                 ELSE Continue(below, [caller EXCEPT
                          !.mixin_config = value,
                          !.base_config = MergeMixin(caller.base_config, value),
                          !.at = "merge"])
          [] caller.fn = "load_and_resolve" ->
                 \* resolve_recursive(&mut loaded_value, new_base, depth + 1)?
                 \* and the check that the loaded value is an Object
                 IF err # "Ok"
                 THEN Unwind(stk, n - 1, err, msg, None)
                 ELSE IF value.kind = "object"
                 THEN Unwind(stk, n - 1, "Ok", <<>>, value)
                 ELSE Unwind(stk, n - 1, "InvalidIncludeTarget",
                             <<"Included/Extended file '", caller.path_str,
                               "' must be an Object, found ", type_name(value)>>,
                             None)
          [] caller.fn = "load_and_merge" ->
                 \* resolve(&mut current, base_dir).map_err(Include)?; then
                 \* merge(&mut merged, current)
                 IF err # "Ok"
                 THEN Returned(Err("Include", <<err>> \o msg, None))
                 ELSE Continue(below, [caller EXCEPT
                          !.merged = Accumulate(caller.merged, value),
                          !.i = @ + 1])

\* The Result res handed to the frame on top of stk.
Deliver(stk, res) == Unwind(stk, Len(stk), res.err, res.msg, res.value)

(***************************************************************************)
(* The trees the calls are given.  Objects are built over a few keys, in   *)
(* every order, so that shared keys, new keys and nested objects all occur.*)
(***************************************************************************)
MaxKeys == 2

\* The sequences of at most n distinct keys drawn from keys.
KeySeqs(keys, n) ==
    {ks \in UNION {[1..m -> keys] : m \in 0..n} :
        \A i, j \in 1..Len(ks) : i # j => ks[i] # ks[j]}

\* The objects with at most n entries, keys from keys and values from vals.
ObjectsOver(keys, vals, n) ==
    {object([i \in 1..Len(ks) |-> <<ks[i], f[i]>>]) :
        ks \in KeySeqs(keys, n), f \in [1..n -> vals]}

MergeKeys == {"a", "b", "c"}

MergeLeaves ==
    { integer(1), string("x"), null,
      array(<<integer(1)>>), array(<<integer(2), integer(3)>>),
      with_comments(array(<<integer(1)>>), <<"c1">>) }

MergeInner ==
    { integer(1),
      array(<<integer(2)>>),
      array(<<integer(1), integer(2)>>),
      with_comments(object(<< <<"a", array(<<integer(1)>>)>> >>), <<"c2">>),
      object(<< <<"b", integer(3)>>, <<"a", array(<<integer(2), integer(3)>>)>> >>) }

MergeObjects ==
    LET plain == ObjectsOver(MergeKeys, MergeInner, MaxKeys)
    IN  plain \cup {with_comments(o, <<"c0">>) : o \in {p \in plain : Len(p.entries) = 1}}

\* Values whose comments differ from those of every other value, at the root
\* and one level down.
MergeCommented ==
    { with_comments(object(<< <<"a", with_comments(integer(1), <<"c5">>)>> >>),
                    <<"c3", "c4">>),
      with_comments(object(<< <<"a", with_comments(object(<< <<"b", null>> >>), <<"c6">>)>>,
                              <<"c", with_comments(string("x"), <<"c7">>)>> >>),
                    <<"c8">>),
      with_comments(string("x"), <<"c9">>) }

MergeValues == MergeLeaves \cup MergeObjects \cup MergeCommented

(***************************************************************************)
(* merge(&mut base, override_val) as a call: the caller's base is tree.    *)
(***************************************************************************)
InitMerge ==
    /\ pc = "ready"
    /\ args \in [base : MergeValues, override_val : MergeValues]
    /\ files = None
    /\ tree = args.base
    /\ ret = None
    /\ reads = <<>>
    /\ stack = <<>>
    /\ composed = None
    /\ env = NoEnvironment

CallMerge ==
    /\ pc = "ready"
    /\ tree' = merge(tree, args.override_val)
    /\ pc' = "done"
    /\ ret' = [ok |-> TRUE]
    /\ UNCHANGED <<args, files, env, reads, stack, composed>>

\* The same override merged a second time into what the first call left;
\* composed keeps what the first call left.
CallMergeAgain ==
    /\ pc = "done"
    /\ composed' = [some |-> tree]
    /\ tree' = merge(tree, args.override_val)
    /\ pc' = "again"
    /\ UNCHANGED <<args, files, env, ret, reads, stack>>

NextMerge == CallMerge \/ CallMergeAgain

SpecMerge == InitMerge /\ [][NextMerge]_vars

\* C1: when both sides are Objects every key of the override is merged into
\* the base (a shared key holds merge(base[k], override[k]), a key of the
\* override alone holds the override's value, a key of the base alone is
\* untouched); for every other pair of kinds the base becomes exactly the
\* override, so an array is replaced, never concatenated.
C1_MergeRule ==
    pc = "done" =>
        LET b == args.base
            o == args.override_val
        IN  IF b.kind = "object" /\ o.kind = "object"
            THEN /\ tree.kind = "object"
                 /\ Len(tree.entries) = Cardinality(KeySet(tree.entries))
                 /\ KeySet(tree.entries) = KeySet(b.entries) \cup KeySet(o.entries)
                 /\ \A k \in KeySet(o.entries) :
                        get(tree.entries, k) =
                            IF k \in KeySet(b.entries)
                            THEN merge(get(b.entries, k), get(o.entries, k))
                            ELSE get(o.entries, k)
                 /\ \A k \in KeySet(b.entries) \ KeySet(o.entries) :
                        get(tree.entries, k) = get(b.entries, k)
                 /\ \A k \in KeySet(b.entries) \cap KeySet(o.entries) :
                        get(o.entries, k).kind = "array" =>
                            get(tree.entries, k) = get(o.entries, k)
            ELSE tree = o

\* Both sides are objects sharing a key that holds an array on both sides, the
\* base has a key of its own, and the merged array is the override's.
C1_Witness ==
    /\ pc = "done"
    /\ args.base.kind = "object" /\ args.override_val.kind = "object"
    /\ KeySet(args.base.entries) \ KeySet(args.override_val.entries) # {}
    /\ \E k \in KeySet(args.base.entries) \cap KeySet(args.override_val.entries) :
          /\ get(args.base.entries, k).kind = "array"
          /\ get(args.override_val.entries, k).kind = "array"
          /\ get(args.base.entries, k) # get(args.override_val.entries, k)
          /\ get(tree.entries, k) = get(args.override_val.entries, k)

\* The keys of m2 that m1 does not have, in m2's order.
NewKeys(m1, m2) == SelectSeq(Keys(m2), LAMBDA k : ~contains_key(m1, k))

\* C6: the merged object's keys are the base's keys in the base's order,
\* followed by the keys only the override has, in the override's order.
C6_MergeKeyOrder ==
    (pc = "done" /\ args.base.kind = "object" /\ args.override_val.kind = "object") =>
        Keys(tree.entries) =
            Keys(args.base.entries) \o NewKeys(args.base.entries, args.override_val.entries)

\* A shared key that is first in the base and last in the override, and a new
\* key before it in the override: the shared key stays first.
C6_Witness ==
    /\ pc = "done"
    /\ args.base.kind = "object" /\ args.override_val.kind = "object"
    /\ Len(args.base.entries) = 2 /\ Len(args.override_val.entries) = 2
    /\ args.base.entries[1][1] = args.override_val.entries[2][1]
    /\ ~contains_key(args.base.entries, args.override_val.entries[1][1])
    /\ Len(tree.entries) = 3
    /\ tree.entries[1][1] = args.base.entries[1][1]
    /\ tree.entries[3][1] = args.override_val.entries[1][1]

(***************************************************************************)
(* The documents and file systems resolve is run on.  The caller's base    *)
(* directory is cfg; cfg holds f1, f2 and f3, each absent, unparsable or   *)
(* one of a few documents, and cfg/sub holds two fixed files.              *)
(***************************************************************************)
BaseDir == <<"cfg">>
FileNames == {"f1", "f2", "f3"}

Absent == [state |-> "absent"]

FileDocs ==
    { object(<< <<"A", integer(1)>>, <<"B", integer(1)>> >>),
      object(<< <<"B", integer(2)>>, <<"C", integer(2)>> >>),
      object(<< <<"include", string("f1")>> >>),
      object(<< <<"include", string("f2")>>, <<"B", integer(4)>> >>),
      object(<< <<"B", integer(5)>>, <<"extends", string("f3")>> >>),
      object(<< <<"extends", string("f2")>>, <<"include", string("f3")>> >>),
      array(<<integer(1)>>),
      object(<< <<"include", integer(5)>> >>),
      object(<< <<"S", object(<< <<"h", integer(1)>>, <<"p", integer(1)>> >>)>>,
                <<"n", object(<< <<"include", string("f3")>> >>)>> >>),
      with_comments(object(<< <<"C", with_comments(integer(6), <<"c6">>)>> >>), <<"c5">>) }

FileChoices == {Absent, Unparsable} \cup {Document(d) : d \in FileDocs}

\* What the file systems always hold: two files of cfg/sub, a third that
\* names itself with a separator after its name, an empty directory of
\* cfg, two files of a directory beside the one relative paths start
\* from, and a file below the root.
SubFiles ==
    [q \in {<<"cfg", "sub", "f1">>, <<"cfg", "sub", "f2">>, <<"cfg", "sub", "self">>,
            <<"cfg", "empty">>, <<"..", "out", "g">>, <<"..", "out", "h">>,
            <<"/", "etc", "g">>} |->
        CASE q = <<"cfg", "sub", "f1">> ->
               Document(object(<< <<"include", string("f2")>>, <<"Q", integer(1)>> >>))
          [] q = <<"cfg", "sub", "f2">> -> Document(object(<< <<"Z", integer(1)>> >>))
          [] q = <<"cfg", "sub", "self">> ->
               Document(object(<< <<"include", string("self/")>>, <<"W", integer(1)>> >>))
          [] q = <<"cfg", "empty">> -> Directory
          [] q = <<"..", "out", "g">> ->
               Document(object(<< <<"extends", string("h")>>, <<"G", integer(1)>> >>))
          [] q = <<"..", "out", "h">> -> Document(object(<< <<"H", integer(1)>> >>))
          [] q = <<"/", "etc", "g">> -> Document(object(<< <<"E", integer(1)>> >>))]

\* The file system in which cfg/<n> holds choice[n].
FileSystem(choice) ==
    LET present == {<<"cfg", n>> : n \in {m \in FileNames : choice[m] # Absent}}
    IN  [q \in present \cup DOMAIN SubFiles |->
            IF q \in DOMAIN SubFiles THEN SubFiles[q] ELSE choice[q[2]]]

RootDocs ==
    { object(<< <<"extends", string("f1")>>, <<"include", string("f2")>>,
                <<"C", integer(3)>> >>),
      object(<< <<"include", string("f1")>> >>),
      object(<< <<"A", integer(7)>>, <<"extends", string("f1")>> >>),
      object(<< <<"x", object(<< <<"include", string("f1")>> >>)>>,
                <<"y", array(<< object(<< <<"extends", string("f2")>>,
                                          <<"B", integer(9)>> >>) >>)>> >>),
      object(<< <<"extends", string("missing")>>, <<"include", string("f1")>> >>),
      object(<< <<"extends", integer(5)>>, <<"include", string("f1")>> >>),
      array(<< object(<< <<"include", string("f1")>> >>), integer(1) >>),
      object(<< <<"A", integer(7)>> >>),
      object(<< <<"include", string("sub/f1")>>, <<"Z", integer(2)>> >>),
      object(<< <<"extends", string("f1")>>,
                <<"x", object(<< <<"include", string("f3")>> >>)>>,
                <<"S", object(<< <<"p", integer(2)>> >>)>> >>),
      with_comments(object(<< <<"include", string("f2")>>,
                              <<"B", with_comments(integer(8), <<"c8">>)>> >>), <<"c7">>),
      object(<< <<"extends", integer(5)>>,
                <<"x", object(<< <<"include", string("f1")>> >>)>> >>),
      object(<< <<"extends", string("sub/f1")>>, <<"include", string("f2")>> >>),
      integer(1) }

\* Roots whose directives are written with separators, `.` and `..`: a file
\* followed by a separator or by `.`, a file reached through the empty
\* directory and through cfg/sub and back, a file above the directory
\* relative paths start from, an absolute path, a file that names itself
\* with a trailing separator, a directory, a way through a directory that
\* does not exist, a way through a file, and a repeated separator.
PathDocs ==
    { object(<< <<"include", string("f1/")>>, <<"L", integer(1)>> >>),
      object(<< <<"L", integer(1)>>, <<"extends", string("f1/.")>> >>),
      object(<< <<"extends", string("empty/../f1")>>,
                <<"include", string("./sub/.././f2")>> >>),
      object(<< <<"include", string("../../out/g")>>, <<"L", integer(1)>> >>),
      object(<< <<"x", object(<< <<"include", string("/etc/g")>> >>)>>,
                <<"y", object(<< <<"include", string("/../etc/../etc/g")>> >>)>> >>),
      object(<< <<"include", string("sub/self")>>, <<"L", integer(1)>> >>),
      object(<< <<"extends", string("empty")>>, <<"L", integer(1)>> >>),
      object(<< <<"include", string("missing/../f1")>> >>),
      object(<< <<"include", string("f1/../f2")>> >>),
      object(<< <<"extends", string("sub//f2")>>, <<"include", string("sub/f2/")>> >>),
      object(<< <<"include", string("")>> >>) }

(***************************************************************************)
(* A chain: the root's only directive names c1, ci's only directive names  *)
(* c(i+1), and the last file cn has none.  Hop i is an `extends` or an     *)
(* `include` as kinds[i] says.                                             *)
(***************************************************************************)
MaxChain == 12

ChainName(i) ==
    <<"c1", "c2", "c3", "c4", "c5", "c6", "c7", "c8", "c9", "c10",
      "c11", "c12", "c13", "c14", "c15", "c16">>[i]

\* Document i of a chain of n hops (0 is the root).
ChainDoc(i, n, kinds) ==
    IF i < n
    THEN object(<< <<kinds[i + 1], string(ChainName(i + 1))>>, <<"lvl", integer(i)>> >>)
    ELSE object(<< <<"lvl", integer(i)>> >>)

ChainFiles(n, kinds) ==
    [q \in {<<"cfg", ChainName(i)>> : i \in 1..n} |->
        Document(ChainDoc(CHOOSE i \in 1..n : ChainName(i) = q[2], n, kinds))]

ChainKinds(n) ==
    { [i \in 1..n |-> "extends"], [i \in 1..n |-> "include"],
      [i \in 1..n |-> IF i % 2 = 1 THEN "extends" ELSE "include"] }

(***************************************************************************)
(* Sibling sub-objects, each heading the same chain: the root has m        *)
(* fields, field i holding the head of the chain under i - 1 levels of     *)
(* arrays and objects.                                                     *)
(***************************************************************************)
MaxSiblings == 3

SiblingKey(i) == <<"s1", "s2", "s3", "s4", "s5", "s6">>[i]

RECURSIVE Nest(_, _)
Nest(levels, v) ==
    IF levels = 0 THEN v
    ELSE IF levels % 2 = 1 THEN array(<<integer(levels), Nest(levels - 1, v)>>)
    ELSE object(<< <<"in", Nest(levels - 1, v)>> >>)

SiblingsDoc(m, kinds) ==
    object([i \in 1..m |->
        <<SiblingKey(i),
          Nest(i - 1, object(<< <<kinds[1], string(ChainName(1))>> >>))>>])

(***************************************************************************)
(* Trees without a directive at any level: nested objects and arrays,      *)
(* comments on every kind of node, keys and strings that only resemble a   *)
(* directive.                                                              *)
(***************************************************************************)
PlainDocs ==
    { with_comments(
          object(<< <<"b", with_comments(
                               array(<< with_comments(
                                            object(<< <<"z", null>>,
                                                      <<"a", with_comments(float(2), <<"c4">>)>> >>),
                                            <<"c3">>),
                                        integer(1),
                                        array(<<>>) >>),
                               <<"c2">>)>>,
                    <<"a", object(<<>>)>>,
                    <<"Include", string("f1")>>,
                    <<"extends_", with_comments(object(<< <<"k", string("f2")>> >>),
                                                <<"c5", "c6">>)>> >>),
          <<"c0", "c1">>),
      array(<< object(<< <<"k", string("include")>>, <<"j", boolean(TRUE)>> >>),
               with_comments(string("extends"), <<"c7">>),
               array(<< array(<< object(<< <<"y", integer(2)>>, <<"x", integer(1)>> >>) >>) >>) >>),
      with_comments(string("include"), <<"c8">>),
      with_comments(object(<<>>), <<"c9">>),
      array(<<>>),
      null }

(***************************************************************************)
(* resolve(&mut value, base_path) as a call.                               *)
(***************************************************************************)
InitResolve ==
    /\ pc = "ready"
    /\ \/ \E choice \in [FileNames -> FileChoices], root \in RootDocs :
             /\ files = FileSystem(choice)
             /\ args = [value |-> root, base_path |-> BaseDir]
       \/ \E n \in 0..MaxChain : \E kinds \in ChainKinds(n) :
             /\ files = ChainFiles(n, kinds)
             /\ args = [value |-> ChainDoc(0, n, kinds), base_path |-> BaseDir]
       \/ \E n \in 1..MaxChain, m \in 1..MaxSiblings : \E kinds \in ChainKinds(n) :
             /\ files = ChainFiles(n, kinds)
             /\ args = [value |-> SiblingsDoc(m, kinds), base_path |-> BaseDir]
       \/ \E c \in FileChoices, root \in PlainDocs \cup PathDocs :
             /\ files = FileSystem([n \in FileNames |-> c])
             /\ args = [value |-> root, base_path |-> BaseDir]
    /\ tree = args.value
    /\ ret = None
    /\ reads = <<>>
    /\ stack = <<>>
    /\ composed = None
    /\ env = NoEnvironment

Top == stack[Len(stack)]
Below == SubSeq(stack, 1, Len(stack) - 1)

\* The run goes on with the outcome's stack, or the call returns to the
\* caller, whose tree is then what the call made of it.
Proceed(outcome) ==
    IF outcome.returned
    THEN /\ stack' = <<>>
         /\ pc' = "done"
         /\ ret' = [err |-> outcome.res.err, msg |-> outcome.res.msg]
         /\ tree' = outcome.res.value
    ELSE /\ stack' = outcome.stack
         /\ UNCHANGED <<pc, ret, tree>>

\* resolve(value, base_path): resolve_recursive(value, base_path, 0).
CallResolve ==
    /\ pc = "ready"
    /\ pc' = "running"
    /\ stack' = <<ResolveFrame(tree, args.base_path, 0)>>
    /\ UNCHANGED <<args, files, env, tree, ret, reads, composed>>

\* The entry of resolve_recursive: the depth guard, then the match on the
\* kind; an Object has its two directives taken out of its map first.
Enter ==
    /\ pc = "running" /\ Top.fn = "resolve_recursive" /\ Top.at = "entry"
    /\ IF LimitExceeded(Top.depth)
       THEN Proceed(Deliver(Below, LimitResult(Top.value)))
       ELSE IF Top.value.kind = "object"
       THEN LET map == Top.value.entries
                extends_val == IF contains_key(map, "extends")
                               THEN get(map, "extends") ELSE None
                map1 == RemoveDirective(map, "extends")
                include_val == IF contains_key(map1, "include")
                               THEN get(map1, "include") ELSE None
                map2 == RemoveDirective(map1, "include")
            IN  Proceed(Continue(Below,
                    [Top EXCEPT !.at = "fields", !.i = 1, !.value.entries = map2,
                                !.extends_val = extends_val,
                                !.include_val = include_val]))
       ELSE IF Top.value.kind = "array"
       THEN Proceed(Continue(Below, [Top EXCEPT !.at = "items", !.i = 1]))
       ELSE Proceed(Deliver(Below, Ok(Top.value)))
    /\ UNCHANGED <<args, files, env, reads, composed>>

\* Step 2, one turn of the loop over the remaining fields: the field's value
\* is resolved with the same base_path and depth.  A scalar returns Ok at
\* once and the loop goes on; after the last field, step 3 follows.
FieldStep ==
    /\ pc = "running" /\ Top.fn = "resolve_recursive" /\ Top.at = "fields"
    /\ LET map == Top.value.entries
       IN  IF Top.i > Len(map)
           THEN Proceed(Continue(Below, [Top EXCEPT !.at = "extends"]))
           ELSE IF IsContainer(map[Top.i][2])
           THEN Proceed(Continue(stack,
                    ResolveFrame(map[Top.i][2], Top.base_path, Top.depth)))
           ELSE Proceed(Continue(Below, [Top EXCEPT !.i = @ + 1]))
    /\ UNCHANGED <<args, files, env, reads, composed>>

\* The Array arm: one turn of the loop over the elements.
ItemStep ==
    /\ pc = "running" /\ Top.fn = "resolve_recursive" /\ Top.at = "items"
    /\ LET arr == Top.value.items
       IN  IF Top.i > Len(arr)
           THEN Proceed(Deliver(Below, Ok(Top.value)))
           ELSE IF IsContainer(arr[Top.i])
           THEN Proceed(Continue(stack,
                    ResolveFrame(arr[Top.i], Top.base_path, Top.depth)))
           ELSE Proceed(Continue(Below, [Top EXCEPT !.i = @ + 1]))
    /\ UNCHANGED <<args, files, env, reads, composed>>

\* Step 3: the base is the file `extends` names, or an empty object.
ExtendsStep ==
    /\ pc = "running" /\ Top.fn = "resolve_recursive" /\ Top.at = "extends"
    /\ LET val == Top.extends_val
       IN  IF val = None
           THEN Proceed(Continue(Below, [Top EXCEPT !.base_config = object(<<>>),
                                                    !.at = "include"]))
           ELSE IF val.kind # "string"
           THEN Proceed(Deliver(Below,
                    Err("InvalidIncludeTarget",
                        <<"Extends value must be a string, found ", type_name(val)>>,
                        Abandoned(Top.value))))
           ELSE Proceed(Continue(stack, LoadFrame(val.s, Top.base_path, Top.depth)))
    /\ UNCHANGED <<args, files, env, reads, composed>>

\* Step 4: the mixin is the file `include` names.
IncludeStep ==
    /\ pc = "running" /\ Top.fn = "resolve_recursive" /\ Top.at = "include"
    /\ LET val == Top.include_val
       IN  IF val = None
           THEN Proceed(Continue(Below, [Top EXCEPT !.at = "merge"]))
           ELSE IF val.kind # "string"
           THEN Proceed(Deliver(Below,
                    Err("InvalidIncludeTarget",
                        <<"Include value must be a string, found ", type_name(val)>>,
                        Abandoned(Top.value))))
           ELSE Proceed(Continue(stack, LoadFrame(val.s, Top.base_path, Top.depth)))
    /\ UNCHANGED <<args, files, env, reads, composed>>

\* Steps 5 and 6: the local map is merged into base_config and the merged
\* map becomes the node's map; the node is done.
MergeStep ==
    /\ pc = "running" /\ Top.fn = "resolve_recursive" /\ Top.at = "merge"
    /\ LET merged == MergeLocal(Top.base_config, Top.value.entries)
           node == PutBack(Top.value, merged)
       IN  /\ Proceed(Deliver(Below, Ok(node)))
           /\ composed' = [loaded_base |-> Top.loaded_base,
                           mixin_config |-> Top.mixin_config,
                           local_map |-> Top.value.entries,
                           merged_map |-> node.entries]
    /\ UNCHANGED <<args, files, env, reads>>

\* load_and_resolve: the file is read and parsed, and the document is
\* resolved one level deeper, relative to the file's own directory.
ReadStep ==
    /\ pc = "running" /\ Top.fn = "load_and_resolve" /\ Top.at = "read"
    /\ reads' = Append(reads, Top.include_path)
    /\ IF Locate(files, Top.base_path, Top.path_str) = None
       THEN Proceed(Deliver(Below, Err("IoError", <<>>, None)))
       ELSE IF files[Locate(files, Top.base_path, Top.path_str).some].state = "unparsable"
       THEN Proceed(Deliver(Below, Err("ParseError", <<>>, None)))
       ELSE LET new_base == parent(Top.include_path)
                loaded_value == files[Locate(files, Top.base_path, Top.path_str).some].doc
            IN  Proceed(Continue(Append(Below, [Top EXCEPT !.at = "resolve"]),
                                 ResolveFrame(loaded_value, new_base, Top.depth + 1)))
    /\ UNCHANGED <<args, files, env, composed>>

ResolveSteps ==
    \/ Enter
    \/ FieldStep
    \/ ItemStep
    \/ ExtendsStep
    \/ IncludeStep
    \/ MergeStep
    \/ ReadStep

NextResolve == CallResolve \/ ResolveSteps

SpecResolve == InitResolve /\ [][NextResolve]_vars

(***************************************************************************)
(* The directive graph of a run: which files the traversal of a document   *)
(* asks for.  A directive is an `extends` or `include` entry of an Object  *)
(* node met by the traversal, which goes through the other fields of an    *)
(* object and the elements of an array.                                    *)
(***************************************************************************)
DirectiveKeys == {"extends", "include"}

RECURSIVE DirectiveEntries(_)
DirectiveEntries(v) ==
    IF v.kind = "object"
    THEN {v.entries[i] : i \in {j \in 1..Len(v.entries) : v.entries[j][1] \in DirectiveKeys}}
         \cup UNION {DirectiveEntries(v.entries[i][2]) :
                        i \in {j \in 1..Len(v.entries) : v.entries[j][1] \notin DirectiveKeys}}
    ELSE IF v.kind = "array"
    THEN UNION {DirectiveEntries(v.items[i]) : i \in 1..Len(v.items)}
    ELSE {}

\* Every directive of the document has a string value.
StringDirectives(v) == \A e \in DirectiveEntries(v) : e[2].kind = "string"

\* What the reads called for by the string directives of a document in
\* directory dir open: the file, or None for a read that fails.
Targets(v, dir) ==
    {Locate(files, dir, e[2].s) : e \in {d \in DirectiveEntries(v) : d[2].kind = "string"}}

\* The read opened a file that parses.
Parsed(opened) == opened # None /\ files[opened.some].state = "parsed"

\* What the directives of an opened file open in their turn, in the
\* directory the file lies in.
FileTargets(opened) ==
    IF Parsed(opened)
    THEN Targets(files[opened.some].doc, parent(opened.some))
    ELSE {}

RECURSIVE Closure(_)
Closure(S) ==
    LET T == S \cup UNION {FileTargets(q) : q \in S}
    IN  IF T = S THEN S ELSE Closure(T)

\* The files the root document reaches through directives.
Reachable == Closure(Targets(args.value, args.base_path))

\* The files on a directive cycle through a file (none when there is no
\* cycle).
CycleOf(opened) ==
    {q \in Closure(FileTargets(opened)) : opened \in Closure(FileTargets(q))}

\* A reachable directive cycle whose files all parse and hold only string
\* directive values.
CycleReachable ==
    \E q \in Reachable :
        /\ q \in CycleOf(q)
        /\ \A c \in CycleOf(q) : Parsed(c) /\ StringDirectives(files[c.some].doc)

\* Nothing but the depth can fail: every reachable file exists and parses to
\* an Object, and every directive of the root and of those files is a string.
CleanReachable ==
    /\ StringDirectives(args.value)
    /\ \A q \in Reachable :
          /\ Parsed(q)
          /\ files[q.some].doc.kind = "object"
          /\ StringDirectives(files[q.some].doc)

Succeeded == pc = "done" /\ ret.err = "Ok"

\* C2: an Object node with `extends` E and/or `include` M and local fields L
\* ends with the field map of merge(merge(resolved E or the empty object,
\* resolved M), locally resolved L): the local fields win over the mixin,
\* the mixin over the base.
C2_Precedence ==
    composed # None =>
        LET base == IF composed.loaded_base = None
                    THEN object(<<>>) ELSE composed.loaded_base
            mixin == IF composed.mixin_config = None
                     THEN object(<<>>) ELSE composed.mixin_config
            local == object(composed.local_map)
            E == base.entries
            M == mixin.entries
            L == local.entries
            R == composed.merged_map
        IN  /\ R = merge(merge(base, mixin), local).entries
            /\ KeySet(R) = KeySet(E) \cup KeySet(M) \cup KeySet(L)
            /\ \A k \in KeySet(R) :
                  /\ (contains_key(L, k) /\ get(L, k).kind # "object")
                        => get(R, k) = get(L, k)
                  /\ (~contains_key(L, k) /\ contains_key(M, k)
                         /\ get(M, k).kind # "object") => get(R, k) = get(M, k)
                  /\ (~contains_key(L, k) /\ ~contains_key(M, k))
                        => get(R, k) = get(E, k)

\* The example: base {A:1,B:1}, mixin {B:2,C:2}, local C:3 give {A:1,B:2,C:3}.
C2_Witness ==
    /\ composed # None
    /\ composed.loaded_base = object(<< <<"A", integer(1)>>, <<"B", integer(1)>> >>)
    /\ composed.mixin_config = object(<< <<"B", integer(2)>>, <<"C", integer(2)>> >>)
    /\ composed.local_map = << <<"C", integer(3)>> >>
    /\ composed.merged_map =
          << <<"A", integer(1)>>, <<"B", integer(2)>>, <<"C", integer(3)>> >>
    /\ Succeeded
    /\ tree = object(composed.merged_map)

RECURSIVE HasDirectiveKey(_)
HasDirectiveKey(v) ==
    IF v.kind = "object"
    THEN \E i \in 1..Len(v.entries) :
            v.entries[i][1] \in DirectiveKeys \/ HasDirectiveKey(v.entries[i][2])
    ELSE IF v.kind = "array"
    THEN \E i \in 1..Len(v.items) : HasDirectiveKey(v.items[i])
    ELSE FALSE

\* C3: after a successful resolve no Object node of the tree, at any depth
\* and wherever it came from, has a key `extends` or `include`.
C3_DirectivesStripped == Succeeded => ~HasDirectiveKey(tree)

\* The root has directives in a nested object and inside an array, a loaded
\* file has a nested directive of its own, and all of it was merged in.
C3_Witness ==
    /\ Succeeded
    /\ args.value.kind = "object"
    /\ \E i, j \in 1..Len(args.value.entries) :
          /\ args.value.entries[i][2].kind = "object"
          /\ HasDirectiveKey(args.value.entries[i][2])
          /\ args.value.entries[j][2].kind = "array"
          /\ HasDirectiveKey(args.value.entries[j][2])
    /\ \E q \in Reachable :
          /\ Parsed(q)
          /\ \E i \in 1..Len(files[q.some].doc.entries) :
                HasDirectiveKey(files[q.some].doc.entries[i][2])
    /\ Len(reads) >= 3

\* C4 as claimed, for a root whose directives are all strings naming files
\* on such a cycle: resolve fails with RecursionLimitExceeded.
C4_CycleAlwaysLimit ==
    (/\ pc = "done"
     /\ CycleReachable
     /\ StringDirectives(args.value)
     /\ \A q \in Targets(args.value, args.base_path) :
           /\ q \in CycleOf(q)
           /\ \A c \in CycleOf(q) : Parsed(c) /\ StringDirectives(files[c.some].doc))
    => ret.err = "RecursionLimitExceeded"

\* C4: with a reachable directive cycle resolve never returns Ok; the error
\* is RecursionLimitExceeded when nothing else can fail, that is when every
\* reachable file exists and parses to an Object and every directive value
\* of the root and of the reachable files is a string.
C4_CycleNeverOk ==
    (pc = "done" /\ CycleReachable) =>
        /\ ret.err # "Ok"
        /\ CleanReachable => ret.err = "RecursionLimitExceeded"

\* Two files including each other, reached from a root that includes one.
C4_Witness ==
    /\ pc = "done"
    /\ CycleReachable /\ CleanReachable
    /\ \E q \in Reachable : Cardinality(CycleOf(q)) = 2
    /\ ret.err = "RecursionLimitExceeded"
    /\ Len(reads) = MAX_DEPTH + 1

\* C5: a chain of n hops resolves when n <= 10 and fails with
\* RecursionLimitExceeded when n >= 11, acyclic though it is.
C5_ChainDepth ==
    pc = "done" =>
        \A n \in 0..MaxChain : \A kinds \in ChainKinds(n) :
            (files = ChainFiles(n, kinds) /\ args.value = ChainDoc(0, n, kinds)) =>
                /\ n <= 10 => (ret.err = "Ok" /\ Len(reads) = n)
                /\ n >= 11 => ret.err = "RecursionLimitExceeded"

\* The longest chain that resolves: ten hops, ten reads.
C5_Witness ==
    /\ Succeeded
    /\ \E kinds \in ChainKinds(10) :
          files = ChainFiles(10, kinds) /\ args.value = ChainDoc(0, 10, kinds)
    /\ Len(reads) = 10
    /\ tree = object(<< <<"lvl", integer(0)>> >>)

\* A chain one hop longer fails at the eleventh file.
C5_WitnessTooDeep ==
    /\ pc = "done" /\ ret.err = "RecursionLimitExceeded"
    /\ \E kinds \in ChainKinds(11) :
          files = ChainFiles(11, kinds) /\ args.value = ChainDoc(0, 11, kinds)

(***************************************************************************)
(* load_and_merge (load.rs).  The files of the loader's runs live in two   *)
(* directories; inc includes m, which is another file in d1 than in d2,    *)
(* and d1 holds an empty directory.  The caller lists paths as texts.      *)
(***************************************************************************)
MaxPaths == 3

LoadFiles ==
    LET doc(q) ==
          CASE q = <<"d1", "a">> ->
                 Document(object(<< <<"a", integer(1)>>, <<"b", integer(2)>> >>))
            [] q = <<"d1", "b">> ->
                 Document(object(<< <<"b", integer(3)>>, <<"c", integer(4)>> >>))
            [] q = <<"d1", "n1">> ->
                 Document(object(<< <<"server",
                     object(<< <<"host", string("localhost")>>,
                               <<"port", integer(80)>> >>)>> >>))
            [] q = <<"d1", "n2">> ->
                 Document(object(<< <<"c", integer(5)>>, <<"server",
                     object(<< <<"port", integer(443)>>,
                               <<"tags", array(<<string("tls")>>)>> >>)>> >>))
            [] q = <<"d1", "inc">> ->
                 Document(object(<< <<"include", string("../d1/m")>>, <<"a", integer(6)>> >>))
            [] q = <<"d1", "m">> ->
                 Document(object(<< <<"m", string("d1")>>, <<"a", integer(0)>> >>))
            [] q = <<"d2", "inc">> ->
                 Document(object(<< <<"include", string("./m")>>, <<"b", integer(7)>> >>))
            [] q = <<"d2", "m">> ->
                 Document(object(<< <<"m", string("d2")>> >>))
            [] q = <<"d1", "seven">> -> Document(integer(7))
            [] q = <<"d1", "bad">> -> Unparsable
            [] q = <<"d1", "garbled">> -> Unlexable
            [] q = <<"d1", "loop">> ->
                 Document(object(<< <<"extends", string("loop")>> >>))
            [] q = <<"d1", "empty">> -> Directory
    IN  [q \in {<<"d1", "a">>, <<"d1", "b">>, <<"d1", "n1">>, <<"d1", "n2">>,
                <<"d1", "inc">>, <<"d1", "m">>, <<"d2", "inc">>, <<"d2", "m">>,
                <<"d1", "seven">>, <<"d1", "bad">>, <<"d1", "garbled">>,
                <<"d1", "loop">>, <<"d1", "empty">>} |-> doc(q)]

\* The paths a caller lists: files that exist, one that does not, a file
\* named through an empty directory and back, a file followed by a
\* separator, and a directory.
LoadPaths ==
    {"d1/a", "d1/b", "d1/n1", "d1/n2", "d1/inc", "d2/inc", "d1/seven", "d1/bad",
     "d1/garbled", "d1/loop", "d1/gone", "d1/empty/../b", "d1/a/", "d1/empty"}

InitLoad ==
    /\ pc = "ready"
    /\ args \in [paths : UNION {[1..n -> LoadPaths] : n \in 0..MaxPaths}]
    /\ files = LoadFiles
    /\ tree = None
    /\ ret = None
    /\ reads = <<>>
    /\ stack = <<>>
    /\ composed = None
    /\ env = NoEnvironment

\* let mut merged = Value::Object(IndexMap::new()); and the loop begins.
CallLoad ==
    /\ pc = "ready"
    /\ pc' = "running"
    /\ stack' = <<[fn |-> "load_and_merge", at |-> "loop", i |-> 1,
                   merged |-> object(<<>>)]>>
    /\ UNCHANGED <<args, files, env, tree, ret, reads, composed>>

\* One turn of `for path in paths`: the file is read and parsed and its
\* document resolved with the file's own directory as base; the merge into
\* the accumulator follows when resolve returns.  After the last path the
\* accumulator is returned.
LoadStep ==
    /\ pc = "running" /\ Top.fn = "load_and_merge" /\ Top.at = "loop"
    /\ IF Top.i > Len(args.paths)
       THEN /\ Proceed(Returned(Ok(Top.merged)))
            /\ UNCHANGED reads
       ELSE LET path == args.paths[Top.i]
            IN  /\ reads' = Append(reads, Components(path))
                /\ IF Locate(files, <<>>, path) = None
                   THEN Proceed(Returned(Err("Io", <<>>, None)))
                   ELSE IF files[Locate(files, <<>>, path).some].state = "unparsable"
                   THEN Proceed(Returned(Err(files[Locate(files, <<>>, path).some].err, <<>>, None)))
                   ELSE LET current == files[Locate(files, <<>>, path).some].doc
                            base_dir == parent(Components(path))
                        IN  Proceed(Continue(stack, ResolveFrame(current, base_dir, 0)))
    /\ UNCHANGED <<args, files, env, composed>>

NextLoad == CallLoad \/ LoadStep \/ ResolveSteps

SpecLoad == InitLoad /\ [][NextLoad]_vars

\* The file a listed path opens, None when the read fails.
Listed(path) == Locate(files, <<>>, path)

\* What each listed file is once read, parsed and include-resolved on its
\* own, relative to its own directory (worked out by hand from LoadFiles).
ResolvedAlone(path) ==
    CASE Listed(path).some = <<"d1", "inc">> ->
           object(<< <<"m", string("d1")>>, <<"a", integer(6)>> >>)
      [] Listed(path).some = <<"d2", "inc">> ->
           object(<< <<"m", string("d2")>>, <<"b", integer(7)>> >>)
      [] OTHER -> files[Listed(path).some].doc

Loadable(path) ==
    /\ Listed(path) # None
    /\ files[Listed(path).some].state = "parsed"
    /\ Listed(path).some # <<"d1", "loop">>

\* The left fold of merge over the first n listed files, from an empty Object.
RECURSIVE FoldMerge(_, _)
FoldMerge(paths, n) ==
    IF n = 0 THEN object(<<>>)
    ELSE merge(FoldMerge(paths, n - 1), ResolvedAlone(paths[n]))

\* The files that define key k at their top level.
Defining(paths, k) ==
    {j \in 1..Len(paths) :
        /\ ResolvedAlone(paths[j]).kind = "object"
        /\ contains_key(ResolvedAlone(paths[j]).entries, k)}

Last(S) == CHOOSE j \in S : \A m \in S : m <= j

LoadKeys == {"a", "b", "c", "m", "server"}

\* The error the loader reports for a listed file that cannot be loaded.
LoadError(path) ==
    IF Listed(path) = None THEN "Io"
    ELSE IF files[Listed(path).some].state = "unparsable" THEN files[Listed(path).some].err
    ELSE "Include"

\* The fold: load_and_merge returns Ok exactly when every listed file can be
\* read, parsed and resolved, and then returns the left fold of merge over
\* the files, each resolved on its own; an empty list gives an empty Object.
\* Otherwise it returns the error of the first file that cannot be loaded.
LoadIsFold ==
    pc = "done" =>
        LET unloadable == {j \in 1..Len(args.paths) : ~Loadable(args.paths[j])}
        IN  IF unloadable = {}
            THEN /\ ret.err = "Ok"
                 /\ tree = FoldMerge(args.paths, Len(args.paths))
                 /\ args.paths = <<>> => tree = object(<<>>)
            ELSE ret.err = LoadError(args.paths[CHOOSE j \in unloadable :
                                                  \A m \in unloadable : j <= m])

\* C7: load_and_merge returns the left fold of merge over the listed files,
\* from an empty Object, each file resolved on its own in its own directory
\* (LoadIsFold); so the last file defining a key with a non-Object value
\* wins, the files from that one on being Objects (a root that is no Object
\* replaces the whole accumulator, by the merge rule).
C7_LoadAndMerge ==
    /\ LoadIsFold
    /\ Succeeded =>
          \A k \in LoadKeys :
              LET defs == Defining(args.paths, k)
              IN  (/\ defs # {}
                   /\ get(ResolvedAlone(args.paths[Last(defs)]).entries, k).kind # "object"
                   /\ \A j \in Last(defs)..Len(args.paths) :
                         ResolvedAlone(args.paths[j]).kind = "object")
                  => /\ tree.kind = "object"
                     /\ contains_key(tree.entries, k)
                     /\ get(tree.entries, k) =
                           get(ResolvedAlone(args.paths[Last(defs)]).entries, k)

\* Three files, two of them with an include resolved in their own directory,
\* all three defining a key: the last one's value is the result's.
C7_Witness ==
    /\ Succeeded
    /\ args.paths = <<"d1/inc", "d2/inc", "d1/b">>
    /\ tree = object(<< <<"m", string("d2")>>, <<"a", integer(6)>>,
                        <<"b", integer(3)>>, <<"c", integer(4)>> >>)

\* The second path is a file followed by a separator: the read fails.
C7_WitnessSeparator ==
    /\ pc = "done" /\ ret.err = "Io"
    /\ args.paths = <<"d1/b", "d1/a/">>
    /\ reads = << <<"d1", "b">>, <<"d1", "a">> >>

\* The second file is listed through an empty directory and back.
C7_WitnessThroughDirectory ==
    /\ Succeeded
    /\ args.paths = <<"d1/a", "d1/empty/../b">>
    /\ tree = object(<< <<"a", integer(1)>>, <<"b", integer(3)>>, <<"c", integer(4)>> >>)

\* A listed directory cannot be read.
C7_WitnessDirectory ==
    /\ pc = "done" /\ ret.err = "Io"
    /\ args.paths = <<"d1/empty">>

(***************************************************************************)
(* The suggestion engine (suggest.rs).                                     *)
(***************************************************************************)
Some(x) == [some |-> x]
IsSome(o) == "some" \in DOMAIN o

\* The String made of a sequence of characters, each a one-character string.

\* The longest of the words over two letters that distances are taken of.
MaxWord == 3

\* The words distances are taken of: every word over a and b of at most
\* MaxWord letters, and the words of test_levenshtein.
Words ==
    UNION {[1..n -> {"a", "b"}] : n \in 0..MaxWord}
    \cup { <<"k", "i", "t", "t", "e", "n">>, <<"s", "i", "t", "t", "i", "n", "g">>,
           <<"b", "o", "o", "k">>, <<"b", "a", "c", "k">>, <<"a", "b", "c">>,
           <<"s", "a", "m", "e">> }

min(x, y) == IF x <= y THEN x ELSE y

\* A row in which a substitution costs as much as a deletion and an
\* insertion together.
RECURSIVE FillRowCostly(_, _, _, _)
FillRowCostly(prev, row, ca, cb) ==
    IF Len(row) = Len(cb) + 1 THEN row
    ELSE LET j == Len(row) - 1
             cost == IF ca = cb[j + 1] THEN 0 ELSE 2
             cell == min(prev[j + 2] + 1, min(row[j + 1] + 1, prev[j + 1] + cost))
         IN  FillRowCostly(prev, Append(row, cell), ca, cb)

\* One row of the table: dp[i + 1][0] = i + 1 and, for j = 0 .. len_b - 1,
\* dp[i + 1][j + 1] from dp[i][j + 1], dp[i + 1][j] and dp[i][j].  Column j
\* of a row is element j + 1 of the sequence.
RECURSIVE FillRow(_, _, _, _)
FillRow(prev, row, ca, cb) ==
    IF Len(row) = Len(cb) + 1 THEN row
    ELSE LET j == Len(row) - 1
             cost == IF ca = cb[j + 1] THEN 0 ELSE 1
             cell == min(prev[j + 2] + 1, min(row[j + 1] + 1, prev[j + 1] + cost))
         IN  FillRow(prev, Append(row, cell), ca, cb)

\* The rows dp[1] .. dp[len_a], each from the one before; the last is kept.
RECURSIVE FillTable(_, _, _, _)
FillTable(prev, a, cb, i) ==
    IF i > Len(a) THEN prev
    ELSE FillTable(FillRow(prev, <<i>>, a[i], cb), a, cb, i + 1)

levenshtein(a, b) ==
    LET ca == chars(a)
        cb == chars(b)
        len_a == Len(ca)
        len_b == Len(cb)
    IN  IF len_a = 0 THEN len_b
        ELSE IF len_b = 0 THEN len_a
        ELSE FillTable([j \in 1..(len_b + 1) |-> j - 1], ca, cb, 1)[len_b + 1]

\* The loop of find_best_match from candidate i on.
RECURSIVE BestMatchFrom(_, _, _, _, _, _)
BestMatchFrom(target, candidates, max_dist, i, best_dist, best_match) ==
    IF i > Len(candidates) THEN best_match
    ELSE LET candidate == candidates[i]
             dist == levenshtein(target, candidate)
         IN  IF dist <= max_dist /\ dist < best_dist
             THEN BestMatchFrom(target, candidates, max_dist, i + 1, dist, Some(candidate))
             ELSE BestMatchFrom(target, candidates, max_dist, i + 1, best_dist, best_match)

\* A later candidate at the same distance replaces the match found so far.
find_last_best_match(target, candidates, max_dist) ==
    LET near == {i \in 1..Len(candidates) :
                    levenshtein(target, candidates[i]) <= max_dist}
        best == {i \in near : \A m \in near :
                    levenshtein(target, candidates[i]) <= levenshtein(target, candidates[m])}
    IN  IF best = {} THEN None
        ELSE Some(candidates[CHOOSE i \in best : \A m \in best : m <= i])

find_best_match(target, candidates, max_dist) ==
    BestMatchFrom(target, candidates, max_dist, 1, max_dist + 1, None)

(***************************************************************************)
(* The schema validator (schema.rs).  A path and a message are the strings *)
(* format! builds.  validate_recursive and validate_type return what the   *)
(* Result holds together with the report they appended to.                 *)
(***************************************************************************)
ValidationItem(level, path, message) ==
    [level |-> level, path |-> path, message |-> message]

\* usize to_string.
RECURSIVE to_string(_)
to_string(n) ==
    LET digit == <<"0", "1", "2", "3", "4", "5", "6", "7", "8", "9">>
    IN  IF n < 10 THEN digit[n + 1]
        ELSE to_string(n \div 10) \o digit[(n % 10) + 1]

Passed(report) == [fatal |-> None, report |-> report]
Aborted(item, report) == [fatal |-> Some(item), report |-> report]

\* The `deprecated` entry is not looked at.
extract_metadata_quiet(schema) ==
    IF /\ schema.kind = "object"
       /\ contains_key(schema.entries, "type")
       /\ get(schema.entries, "type").kind = "string"
    THEN [schema |-> get(schema.entries, "type"),
          deprecation |-> None,
          optional |->
              IF /\ contains_key(schema.entries, "optional")
                 /\ get(schema.entries, "optional").kind = "boolean"
              THEN get(schema.entries, "optional").b
              ELSE FALSE]
    ELSE [schema |-> schema, deprecation |-> None, optional |-> FALSE]

\* The `optional` entry is not looked at.
extract_metadata_required(schema) ==
    IF /\ schema.kind = "object"
       /\ contains_key(schema.entries, "type")
       /\ get(schema.entries, "type").kind = "string"
    THEN [schema |-> get(schema.entries, "type"),
          deprecation |->
              IF /\ contains_key(schema.entries, "deprecated")
                 /\ get(schema.entries, "deprecated").kind = "string"
              THEN Some(get(schema.entries, "deprecated").s)
              ELSE None,
          optional |-> FALSE]
    ELSE [schema |-> schema, deprecation |-> None, optional |-> FALSE]

\* The descriptor is not unwrapped: the node itself stays the schema.
extract_metadata_wrapped(schema) ==
    IF /\ schema.kind = "object"
       /\ contains_key(schema.entries, "type")
       /\ get(schema.entries, "type").kind = "string"
    THEN [schema |-> schema,
          deprecation |->
              IF /\ contains_key(schema.entries, "deprecated")
                 /\ get(schema.entries, "deprecated").kind = "string"
              THEN Some(get(schema.entries, "deprecated").s)
              ELSE None,
          optional |->
              IF /\ contains_key(schema.entries, "optional")
                 /\ get(schema.entries, "optional").kind = "boolean"
              THEN get(schema.entries, "optional").b
              ELSE FALSE]
    ELSE [schema |-> schema, deprecation |-> None, optional |-> FALSE]

extract_metadata(schema) ==
    IF /\ schema.kind = "object"
       /\ contains_key(schema.entries, "type")
       /\ get(schema.entries, "type").kind = "string"
    THEN [schema |-> get(schema.entries, "type"),
          deprecation |->
              IF /\ contains_key(schema.entries, "deprecated")
                 /\ get(schema.entries, "deprecated").kind = "string"
              THEN Some(get(schema.entries, "deprecated").s)
              ELSE None,
          optional |->
              IF /\ contains_key(schema.entries, "optional")
                 /\ get(schema.entries, "optional").kind = "boolean"
              THEN get(schema.entries, "optional").b
              ELSE FALSE]
    ELSE [schema |-> schema, deprecation |-> None, optional |-> FALSE]

\* An unrecognized type name is reported as a mismatch instead of aborting.
validate_type_lenient(instance, type_name_str, path, report) ==
    IF type_name_str = "any" THEN Passed(report)
    ELSE Passed(Append(report, ValidationItem("Error", path,
             "Type mismatch: expected " \o type_name_str \o ", found "
                 \o type_name(instance))))

\* An Integer passes for a `float`.
validate_type_widening(instance, type_name_str, path, report) ==
    IF type_name_str = "float" /\ instance.kind = "integer" THEN Passed(report)
    ELSE validate_type_lenient(instance,
             IF instance.kind \in
                    (CASE type_name_str = "number" -> {"integer", "float"}
                       [] type_name_str \in {"boolean", "bool"} -> {"boolean"}
                       [] OTHER -> {type_name_str})
             THEN "any" ELSE type_name_str,
             path, report)

validate_type(instance, type_name_str, path, report) ==
    LET actual_type == type_name(instance)
        known == {"any", "string", "integer", "float", "boolean", "bool", "null",
                  "number"}
        is_valid ==
            CASE type_name_str = "any" -> TRUE
              [] type_name_str = "string" -> instance.kind = "string"
              [] type_name_str = "integer" -> instance.kind = "integer"
              [] type_name_str = "float" -> instance.kind = "float"
              [] type_name_str \in {"boolean", "bool"} -> instance.kind = "boolean"
              [] type_name_str = "null" -> instance.kind = "null"
              [] type_name_str = "number" -> instance.kind \in {"integer", "float"}
    IN  IF type_name_str \notin known
        THEN Aborted(ValidationItem("Error", path,
                 "Unknown type '" \o type_name_str \o "'"), report)
        ELSE IF ~is_valid
        THEN Passed(Append(report, ValidationItem("Error", path,
                 "Type mismatch: expected " \o type_name_str \o ", found "
                     \o actual_type)))
        ELSE Passed(report)

RECURSIVE validate_recursive(_, _, _, _)
RECURSIVE CheckRequired(_, _, _, _, _)
RECURSIVE CheckItems(_, _, _, _, _)

\* for (key, sub_schema) in schema_obj, from entry i on: an absent key is a
\* finding unless its schema is optional, a present one is validated at
\* path.key, and a fatal error there ends the loop.
CheckRequired(instance_obj, schema_obj, path, report, i) ==
    IF i > Len(schema_obj) THEN Passed(report)
    ELSE LET key == schema_obj[i][1]
             sub_schema == schema_obj[i][2]
         IN  IF ~contains_key(instance_obj, key)
             THEN LET is_optional == extract_metadata(sub_schema).optional
                  IN  CheckRequired(instance_obj, schema_obj, path,
                          IF ~is_optional
                          THEN Append(report, ValidationItem("Error", path,
                                   "Missing required field '" \o key \o "'"))
                          ELSE report,
                          i + 1)
             ELSE LET r == validate_recursive(get(instance_obj, key), sub_schema,
                               path \o "." \o key, report)
                  IN  IF IsSome(r.fatal) THEN r
                      ELSE CheckRequired(instance_obj, schema_obj, path, r.report, i + 1)

\* for key in instance_obj.keys(), from entry i on: a key the schema does
\* not declare is a finding, with the suggestion find_best_match gives.
RECURSIVE CheckUnknown(_, _, _, _, _)
CheckUnknown(instance_obj, schema_obj, path, report, i) ==
    IF i > Len(instance_obj) THEN report
    ELSE LET key == instance_obj[i][1]
             schema_keys == Keys(schema_obj)
             best_match == find_best_match(key, schema_keys, 2)
             msg == "Unknown field '" \o key \o "'" \o
                    (IF IsSome(best_match)
                     THEN "; did you mean '" \o best_match.some \o "'?"
                     ELSE "")
         IN  CheckUnknown(instance_obj, schema_obj, path,
                 IF ~contains_key(schema_obj, key)
                 THEN Append(report, ValidationItem("Error", path, msg))
                 ELSE report,
                 i + 1)

\* The elements reported at indices counted from one.
RECURSIVE CheckItemsFromOne(_, _, _, _, _)
CheckItemsFromOne(instance_arr, item_schema, path, report, n) ==
    IF n >= Len(instance_arr) THEN Passed(report)
    ELSE LET r == validate_recursive(instance_arr[n + 1], item_schema,
                      path \o "[" \o to_string(n + 1) \o "]", report)
         IN  IF IsSome(r.fatal) THEN r
             ELSE CheckItemsFromOne(instance_arr, item_schema, path, r.report, n + 1)

\* for (i, item) in instance_arr.iter().enumerate(), from item n + 1 on
\* (item n + 1 of the sequence is the element of index n).
CheckItems(instance_arr, item_schema, path, report, n) ==
    IF n >= Len(instance_arr) THEN Passed(report)
    ELSE LET r == validate_recursive(instance_arr[n + 1], item_schema,
                      path \o "[" \o to_string(n) \o "]", report)
         IN  IF IsSome(r.fatal) THEN r
             ELSE CheckItems(instance_arr, item_schema, path, r.report, n + 1)

validate_recursive(instance, schema, path, report) ==
    LET meta == extract_metadata(schema)
        effective_type_schema == meta.schema
        noted == IF IsSome(meta.deprecation)
                 THEN Append(report, ValidationItem("Warning", path,
                          "Deprecated usage: " \o meta.deprecation.some))
                 ELSE report
    IN  CASE effective_type_schema.kind = "string" ->
               validate_type(instance, effective_type_schema.s, path, noted)
          [] effective_type_schema.kind = "object" ->
               IF instance.kind = "object"
               THEN LET r == CheckRequired(instance.entries,
                                 effective_type_schema.entries, path, noted, 1)
                    IN  IF IsSome(r.fatal) THEN r
                        ELSE Passed(CheckUnknown(instance.entries,
                                 effective_type_schema.entries, path, r.report, 1))
               ELSE Passed(Append(noted, ValidationItem("Error", path,
                        "Expected object, found " \o type_name(instance))))
          [] effective_type_schema.kind = "array" ->
               IF Len(effective_type_schema.items) # 1
               THEN Aborted(ValidationItem("Error", path,
                        "Array schema must contain exactly one element specifier"),
                        noted)
               ELSE IF instance.kind = "array"
               THEN CheckItems(instance.items, effective_type_schema.items[1],
                        path, noted, 0)
               ELSE Passed(Append(noted, ValidationItem("Error", path,
                        "Expected array, found " \o type_name(instance))))
          [] OTHER ->
               Aborted(ValidationItem("Error", path,
                   "Unsupported schema value type: "
                       \o type_name(effective_type_schema)), noted)

\* validate: the report on Ok, the fatal item alone on Err.
validate(instance, schema) ==
    LET r == validate_recursive(instance, schema, "$", <<>>)
    IN  IF IsSome(r.fatal)
        THEN [err |-> "Err", item |-> r.fatal.some]
        ELSE [err |-> "Ok", report |-> r.report]

(***************************************************************************)
(* The schemas and instances validate is called with.  Each key has its    *)
(* own menu of schemas (and of instance values); an object takes up to     *)
(* MaxFields keys, a schema in every key order.                            *)
(***************************************************************************)
MaxFields == 2

descriptor(type_def, rest) == object(<< <<"type", type_def>> >> \o rest)

SchemaKeys == {"port", "post", "host"}

SchemaMenu(key) ==
    CASE key = "port" ->
           { string("integer"),
             string("bogus"),
             descriptor(string("integer"), << <<"optional", boolean(TRUE)>> >>),
             descriptor(array(<<string("integer")>>), << <<"optional", boolean(TRUE)>> >>) }
      [] key = "post" ->
           { string("any"),
             array(<<>>),
             array(<<string("bogus")>>),
             descriptor(string("string"), << <<"deprecated", string("use host")>>,
                                             <<"optional", boolean(FALSE)>> >>) }
      [] key = "host" ->
           { string("string"),
             array(<<string("string")>>),
             object(<< <<"port", string("number")>>,
                       <<"tags", descriptor(string("bogus"),
                                     << <<"optional", boolean(TRUE)>> >>)>> >>),
             descriptor(object(<< <<"port", string("integer")>> >>),
                        << <<"optional", boolean(TRUE)>> >>) }

InstanceKeys == <<"port", "prt", "pot", "host", "post", "p">>

InstanceMenu(key) ==
    CASE key = "port" -> {integer(8080), string("x")}
      [] key = "prt" -> {integer(8080)}
      [] key = "pot" -> {null}
      [] key = "p" -> {boolean(TRUE)}
      [] key = "host" ->
           { string("h"),
             array(<<string("a"), integer(2)>>),
             object(<< <<"prt", float(1)>>, <<"tags", string("t")>> >>) }
      [] key = "post" -> {array(<<>>), string("s")}

\* The ways to give each key of ks a value from its menu.
Fill(ks, menu) ==
    LET all == UNION {menu[ks[i]] : i \in 1..Len(ks)}
    IN  {f \in [1..Len(ks) -> all] : \A i \in 1..Len(ks) : f[i] \in menu[ks[i]]}

SchemaObjects ==
    UNION {{object([i \in 1..Len(ks) |-> <<ks[i], f[i]>>]) : f \in Fill(ks, [k \in SchemaKeys |-> SchemaMenu(k)])} :
              ks \in KeySeqs(SchemaKeys, MaxFields)}

\* The instance objects list their keys in the order of InstanceKeys.
InstanceKeySeqs ==
    {ks \in UNION {[1..m -> 1..Len(InstanceKeys)] : m \in 0..MaxFields} :
        \A i, j \in 1..Len(ks) : i < j => ks[i] < ks[j]}

InstanceObjects ==
    UNION {{object([i \in 1..Len(ks) |-> <<InstanceKeys[ks[i]], f[i]>>]) :
               f \in Fill([i \in 1..Len(ks) |-> InstanceKeys[ks[i]]],
                           [k \in {InstanceKeys[i] : i \in 1..Len(InstanceKeys)} |->
                               InstanceMenu(k)])} :
              ks \in InstanceKeySeqs}

\* Schemas and instances besides the objects of the menus.
RootSchemas ==
    { string("integer"), string("number"), string("bogus"), null, boolean(TRUE),
      array(<<>>), array(<<string("integer")>>),
      array(<<string("integer"), string("string")>>),
      array(<<object(<< <<"port", string("integer")>> >>)>>),
      descriptor(string("integer"), << <<"deprecated", string("old")>> >>),
      object(<< <<"optional", boolean(TRUE)>>, <<"type", string("string")>>,
                <<"port", string("integer")>> >>),
      object(<< <<"port", descriptor(string("integer"),
                              << <<"optional", string("yes")>> >>)>>,
                <<"post", integer(5)>> >>),
      object(<< <<"port", descriptor(string("integer"),
                              << <<"optional", with_comments(boolean(TRUE), <<"c">>)>> >>)>> >>),
      object(<< <<"host", descriptor(string("bool"),
                              << <<"optional", boolean(TRUE)>>,
                                 <<"deprecated", integer(1)>> >>)>>,
                <<"post", array(<<string("any")>>)>> >>),
      array(<<descriptor(string("integer"), << <<"deprecated", string("old")>> >>)>>),
      object(<< <<"host", descriptor(string("boolean"),
                              << <<"deprecated", string("use tls")>> >>)>> >>),
      object(<< <<"post", descriptor(array(<<string("string")>>),
                              << <<"deprecated", string("old")>> >>)>> >>),
      descriptor(array(<<string("integer")>>), << <<"deprecated", string("old")>> >>),
      descriptor(object(<< <<"port", string("integer")>> >>), <<>>),
      array(<<string("bogus")>>),
      array(<<array(<<string("integer")>>)>>),
      string("any"), string("string"), string("float"), string("boolean"),
      string("bool"), string("null") }

RootInstances ==
    { integer(1), float(1), string("x"), boolean(FALSE), null,
      array(<<>>), array(<<integer(1), string("x")>>),
      array(<<object(<< <<"prt", integer(1)>> >>), integer(3)>>),
      array(<<array(<<integer(1), string("x")>>), array(<<>>), float(2)>>),
      object(<< <<"type", array(<<integer(1)>>)>>, <<"optional", boolean(TRUE)>> >>),
      object(<< <<"port", array(<<integer(1)>>)>>, <<"post", array(<<string("a")>>)>> >>),
      object(<< <<"host", boolean(TRUE)>> >>) }

Schemas == SchemaObjects \cup RootSchemas
Instances == InstanceObjects \cup RootInstances

InitValidate ==
    /\ pc = "ready"
    /\ args \in [instance : Instances, schema : Schemas]
    /\ files = None
    /\ tree = None
    /\ ret = None
    /\ reads = <<>>
    /\ stack = <<>>
    /\ composed = None
    /\ env = NoEnvironment

CallValidate ==
    /\ pc = "ready"
    /\ ret' = validate(args.instance, args.schema)
    /\ pc' = "done"
    /\ UNCHANGED <<args, files, env, tree, reads, stack, composed>>

NextValidate == CallValidate

SpecValidate == InitValidate /\ [][NextValidate]_vars

(***************************************************************************)
(* What a validation is expected to find, stated over the pair of trees.   *)
(***************************************************************************)
KnownTypes == {"any", "string", "integer", "float", "boolean", "bool", "null", "number"}

\* The kinds of value a recognized type name accepts.
Accepts(name) ==
    CASE name = "any" ->
           {"null", "boolean", "integer", "float", "string", "array", "object"}
      [] name = "number" -> {"integer", "float"}
      [] name \in {"boolean", "bool"} -> {"boolean"}
      [] OTHER -> {name}

\* An extended descriptor: an Object whose `type` is a type-name string.
IsDescriptor(s) ==
    /\ s.kind = "object"
    /\ \E i \in 1..Len(s.entries) : s.entries[i][1] = "type" /\ s.entries[i][2].kind = "string"

Entry(m, k) == (CHOOSE e \in {m[i] : i \in 1..Len(m)} : e[1] = k)[2]

Effective(s) == IF IsDescriptor(s) THEN Entry(s.entries, "type") ELSE s

\* A descriptor that marks its field optional.
MarksOptional(s) ==
    /\ IsDescriptor(s)
    /\ \E i \in 1..Len(s.entries) :
          /\ s.entries[i][1] = "optional"
          /\ s.entries[i][2].kind = "boolean" /\ s.entries[i][2].b

\* An Object with a `type` entry, whatever its kind, and `optional: true`.
MarksOptionalAnyType(s) ==
    /\ s.kind = "object"
    /\ \E i \in 1..Len(s.entries) : s.entries[i][1] = "type"
    /\ \E i \in 1..Len(s.entries) :
          /\ s.entries[i][1] = "optional"
          /\ s.entries[i][2].kind = "boolean" /\ s.entries[i][2].b

\* A schema node that cannot be interpreted.
NodeMalformed(eff) ==
    \/ eff.kind = "array" /\ Len(eff.items) # 1
    \/ eff.kind = "string" /\ eff.s \notin KnownTypes
    \/ eff.kind \notin {"string", "array", "object"}

\* The keys both maps hold.
Shared(m1, m2) == KeySet(m1) \cap KeySet(m2)

\* The traversal of instance against schema comes to a malformed node: the
\* node itself, or one below a key both objects hold, or the element schema
\* when the instance array has an element.
RECURSIVE ReachesMalformed(_, _)
ReachesMalformed(instance, schema) ==
    LET eff == Effective(schema)
    IN  \/ NodeMalformed(eff)
        \/ /\ eff.kind = "object" /\ instance.kind = "object"
           /\ \E k \in Shared(instance.entries, eff.entries) :
                 ReachesMalformed(Entry(instance.entries, k), Entry(eff.entries, k))
        \/ /\ eff.kind = "array" /\ Len(eff.items) = 1 /\ instance.kind = "array"
           /\ \E i \in 1..Len(instance.items) :
                 ReachesMalformed(instance.items[i], eff.items[1])

\* The schema contains, anywhere, a malformed node: an array schema of
\* length other than one, a type-name string that is not recognized, or a
\* value that is no string, array or object.  An Object with a `type` entry
\* is read both as a descriptor and as a structural object.
RECURSIVE ContainsMalformed(_)
ContainsMalformed(s) ==
    CASE s.kind = "string" -> s.s \notin KnownTypes
      [] s.kind = "array" ->
           \/ Len(s.items) # 1
           \/ \E i \in 1..Len(s.items) : ContainsMalformed(s.items[i])
      [] s.kind = "object" ->
           \/ /\ \E i \in 1..Len(s.entries) : s.entries[i][1] = "type"
              /\ ContainsMalformed(Entry(s.entries, "type"))
           \/ /\ ~IsDescriptor(s)
              /\ \E i \in 1..Len(s.entries) : ContainsMalformed(s.entries[i][2])
      [] OTHER -> TRUE

\* The edit distance of two character sequences, by its recurrence.
RECURSIVE EditDistance(_, _)
EditDistance(x, y) ==
    IF x = <<>> THEN Len(y)
    ELSE IF y = <<>> THEN Len(x)
    ELSE IF Head(x) = Head(y) THEN EditDistance(Tail(x), Tail(y))
    ELSE 1 + min(EditDistance(Tail(x), Tail(y)),
                 min(EditDistance(Tail(x), y), EditDistance(x, Tail(y))))

\* The declared key to suggest for an unknown key: the first of those at
\* the least distance, when that distance is at most 2.
Suggestion(key, schema_keys) ==
    LET d == [i \in 1..Len(schema_keys) |->
                 EditDistance(chars(key), chars(schema_keys[i]))]
        near == {i \in 1..Len(schema_keys) : d[i] <= 2}
    IN  IF near = {} THEN None
        ELSE Some(schema_keys[CHOOSE i \in near :
                 \A m \in near : d[i] < d[m] \/ (d[i] = d[m] /\ i <= m)])

MissingItem(path, key) ==
    ValidationItem("Error", path, "Missing required field '" \o key \o "'")

UnknownItem(path, key, hint) ==
    ValidationItem("Error", path,
        IF IsSome(hint)
        THEN "Unknown field '" \o key \o "'; did you mean '" \o hint.some \o "'?"
        ELSE "Unknown field '" \o key \o "'")

MismatchItem(path, name, kind) ==
    ValidationItem("Error", path, "Type mismatch: expected " \o name \o ", found " \o kind)

\* The findings of a validation that meets no malformed node, as a set.
RECURSIVE Findings(_, _, _)
Findings(instance, schema, path) ==
    LET eff == Effective(schema)
        warned ==
            IF IsDescriptor(schema)
            THEN {ValidationItem("Warning", path, "Deprecated usage: " \o e[2].s) :
                     e \in {schema.entries[i] : i \in {j \in 1..Len(schema.entries) :
                              /\ schema.entries[j][1] = "deprecated"
                              /\ schema.entries[j][2].kind = "string"}}}
            ELSE {}
        found ==
            CASE eff.kind = "string" ->
                   IF instance.kind \in Accepts(eff.s) THEN {}
                   ELSE {MismatchItem(path, eff.s, instance.kind)}
              [] eff.kind = "object" /\ instance.kind # "object" ->
                   {ValidationItem("Error", path, "Expected object, found " \o instance.kind)}
              [] eff.kind = "object" /\ instance.kind = "object" ->
                   {MissingItem(path, k) :
                       k \in {q \in KeySet(eff.entries) \ KeySet(instance.entries) :
                                 ~MarksOptional(Entry(eff.entries, q))}}
                   \cup {UnknownItem(path, k, Suggestion(k, Keys(eff.entries))) :
                            k \in KeySet(instance.entries) \ KeySet(eff.entries)}
                   \cup UNION {Findings(Entry(instance.entries, k), Entry(eff.entries, k),
                                   path \o "." \o k) :
                                  k \in Shared(instance.entries, eff.entries)}
              [] eff.kind = "array" /\ instance.kind # "array" ->
                   {ValidationItem("Error", path, "Expected array, found " \o instance.kind)}
              [] eff.kind = "array" /\ instance.kind = "array" /\ Len(eff.items) = 1 ->
                   UNION {Findings(instance.items[i], eff.items[1],
                              path \o "[" \o to_string(i - 1) \o "]") :
                             i \in 1..Len(instance.items)}
              [] OTHER -> {}
    IN  warned \cup found

\* How many times an item stands in a report.
Count(report, item) == Cardinality({i \in 1..Len(report) : report[i] = item})

\* C8 as claimed: Err exactly when the schema holds a malformed node.
C8_FatalIffMalformed ==
    pc = "done" => (ret.err = "Err" <=> ContainsMalformed(args.schema))

\* C8: validate returns Err, and no report, exactly when the traversal of the
\* instance against the schema comes to a malformed schema node; otherwise it
\* returns Ok with every finding of the traversal in the report, each once.
C8_FatalWhenReached ==
    pc = "done" =>
        /\ ret.err = "Err" <=> ReachesMalformed(args.instance, args.schema)
        /\ ret.err = "Err" => DOMAIN ret = {"err", "item"}
        /\ ret.err = "Ok" =>
              LET expected == Findings(args.instance, args.schema, "$")
              IN  /\ {ret.report[i] : i \in 1..Len(ret.report)} = expected
                  /\ Len(ret.report) = Cardinality(expected)

\* A deprecation, a type mismatch, a missing field and an unknown field are
\* all in one report, the traversal going on after each.
C8_Witness ==
    /\ Succeeded
    /\ args.schema = object(<<
           <<"post", descriptor(string("string"),
                         << <<"deprecated", string("use host")>>,
                            <<"optional", boolean(FALSE)>> >>)>>,
           <<"port", string("integer")>> >>)
    /\ args.instance = object(<< <<"prt", integer(8080)>>, <<"post", array(<<>>)>> >>)
    /\ ret.report = <<
           ValidationItem("Warning", "$.post", "Deprecated usage: use host"),
           ValidationItem("Error", "$.post", "Type mismatch: expected string, found array"),
           ValidationItem("Error", "$", "Missing required field 'port'"),
           ValidationItem("Error", "$", "Unknown field 'prt'; did you mean 'port'?") >>

\* A malformed schema makes validate return Err with the item alone.
C8_WitnessFatal ==
    /\ pc = "done"
    /\ args.schema = object(<< <<"port", string("integer")>>, <<"post", array(<<>>)>> >>)
    /\ args.instance = object(<< <<"port", string("x")>>, <<"post", string("s")>> >>)
    /\ ret = [err |-> "Err", item |-> ValidationItem("Error", "$.post",
                  "Array schema must contain exactly one element specifier")]

\* The structural checks of a traversal: each Object instance compared with
\* a structural schema, and the path it is compared at.
RECURSIVE StructuralChecks(_, _, _)
StructuralChecks(instance, schema, path) ==
    LET eff == Effective(schema)
    IN  IF eff.kind = "object" /\ instance.kind = "object"
        THEN {[instance_obj |-> instance.entries, schema_obj |-> eff.entries,
               path |-> path]}
             \cup UNION {StructuralChecks(Entry(instance.entries, k),
                             Entry(eff.entries, k), path \o "." \o k) :
                            k \in Shared(instance.entries, eff.entries)}
        ELSE IF eff.kind = "array" /\ Len(eff.items) = 1 /\ instance.kind = "array"
        THEN UNION {StructuralChecks(instance.items[i], eff.items[1],
                        path \o "[" \o to_string(i - 1) \o "]") :
                       i \in 1..Len(instance.items)}
        ELSE {}

\* C9 as claimed: an absent key is reported missing, once, unless its schema
\* is an Object with a `type` entry and `optional: true`.
C9_MissingUnlessMarked ==
    Succeeded =>
        \A c \in StructuralChecks(args.instance, args.schema, "$") :
            \A k \in KeySet(c.schema_obj) :
                Count(ret.report, MissingItem(c.path, k)) =
                    IF /\ k \notin KeySet(c.instance_obj)
                       /\ ~MarksOptionalAnyType(Entry(c.schema_obj, k))
                    THEN 1 ELSE 0

\* C9: in every structural check the report holds exactly one 'Missing
\* required field' Error at the object's path for each schema key absent
\* from the instance, unless the key's schema is a descriptor (an Object
\* whose `type` is a string) with `optional: true`, and none for any other
\* key; an optional field that is present is checked against its type.
C9_MissingRequired ==
    Succeeded =>
        \A c \in StructuralChecks(args.instance, args.schema, "$") :
            /\ \A k \in KeySet(c.schema_obj) :
                  Count(ret.report, MissingItem(c.path, k)) =
                      IF /\ k \notin KeySet(c.instance_obj)
                         /\ ~MarksOptional(Entry(c.schema_obj, k))
                      THEN 1 ELSE 0
            /\ \A k \in Shared(c.instance_obj, c.schema_obj) :
                  MarksOptional(Entry(c.schema_obj, k)) =>
                      LET name == Effective(Entry(c.schema_obj, k)).s
                          kind == Entry(c.instance_obj, k).kind
                      IN  Count(ret.report,
                                MismatchItem(c.path \o "." \o k, name, kind)) =
                              IF kind \in Accepts(name) THEN 0 ELSE 1

\* An absent optional field and an absent required one: only the required
\* one is reported.
C9_Witness ==
    /\ Succeeded
    /\ args.schema = object(<<
           <<"port", descriptor(string("integer"), << <<"optional", boolean(TRUE)>> >>)>>,
           <<"host", string("string")>> >>)
    /\ args.instance = object(<<>>)
    /\ ret.report = <<ValidationItem("Error", "$", "Missing required field 'host'")>>

\* An optional field that is present with the wrong type is reported.
C9_WitnessPresent ==
    /\ Succeeded
    /\ args.schema = object(<<
           <<"port", descriptor(string("integer"), << <<"optional", boolean(TRUE)>> >>)>> >>)
    /\ args.instance = object(<< <<"port", string("x")>> >>)
    /\ ret.report = <<ValidationItem("Error", "$.port",
                          "Type mismatch: expected integer, found string")>>

\* C10: in every structural check each instance key the schema does not
\* declare has exactly one 'Unknown field' Error at the object's path, and
\* declared keys have none; the message ends with "; did you mean '<k>'?"
\* exactly when a declared key is within edit distance 2, <k> being the
\* first declared key at the least distance.
C10_UnknownField ==
    Succeeded =>
        \A c \in StructuralChecks(args.instance, args.schema, "$") :
            \A k \in KeySet(c.instance_obj) :
                LET best == Suggestion(k, Keys(c.schema_obj))
                IN  \A hint \in {None} \cup {Some(q) : q \in KeySet(c.schema_obj)} :
                        Count(ret.report, UnknownItem(c.path, k, hint)) =
                            IF k \notin KeySet(c.schema_obj) /\ hint = best
                            THEN 1 ELSE 0

\* The example: the missing port and the unknown prt, with port suggested.
C10_Witness ==
    /\ Succeeded
    /\ args.schema = object(<< <<"port", string("integer")>> >>)
    /\ args.instance = object(<< <<"prt", integer(8080)>> >>)
    /\ ret.report = <<
           ValidationItem("Error", "$", "Missing required field 'port'"),
           ValidationItem("Error", "$", "Unknown field 'prt'; did you mean 'port'?") >>

\* Two declared keys at the same distance: the first declared is suggested;
\* a key farther than 2 from every declared key gets no suggestion.
C10_WitnessTie ==
    /\ Succeeded
    /\ args.schema.kind = "object"
    /\ Keys(args.schema.entries) = <<"post", "port">>
    /\ args.instance = object(<< <<"pot", null>>, <<"p", boolean(TRUE)>> >>)
    /\ \E i, j \in 1..Len(ret.report) :
          /\ ret.report[i] = ValidationItem("Error", "$",
                                 "Unknown field 'pot'; did you mean 'post'?")
          /\ ret.report[j] = ValidationItem("Error", "$", "Unknown field 'p'")

\* The visits of a traversal: each instance value compared with a schema
\* node, and the path it is compared at.
RECURSIVE Visits(_, _, _)
Visits(instance, schema, path) ==
    LET eff == Effective(schema)
    IN  {[value |-> instance, schema |-> schema, path |-> path]}
        \cup (IF eff.kind = "object" /\ instance.kind = "object"
              THEN UNION {Visits(Entry(instance.entries, k), Entry(eff.entries, k),
                              path \o "." \o k) :
                             k \in Shared(instance.entries, eff.entries)}
              ELSE IF eff.kind = "array" /\ Len(eff.items) = 1 /\ instance.kind = "array"
              THEN UNION {Visits(instance.items[i], eff.items[1],
                              path \o "[" \o to_string(i - 1) \o "]") :
                             i \in 1..Len(instance.items)}
              ELSE {})

HasStringDeprecated(s) ==
    \E i \in 1..Len(s.entries) :
        s.entries[i][1] = "deprecated" /\ s.entries[i][2].kind = "string"

\* A descriptor (its `type` a type-name string) with a string `deprecated`.
DeprecatedDescriptor(s) == IsDescriptor(s) /\ HasStringDeprecated(s)

\* An Object with a `type` entry of any kind and a string `deprecated`.
DeprecatedAnyType(s) ==
    /\ s.kind = "object"
    /\ \E i \in 1..Len(s.entries) : s.entries[i][1] = "type"
    /\ HasStringDeprecated(s)

ItemsAt(report, level, path) ==
    {i \in 1..Len(report) : report[i].level = level /\ report[i].path = path}

\* C11 as claimed: every visited node that is an Object with a `type` entry
\* and a string `deprecated` has exactly one Warning at its path.
C11_WarningAnyType ==
    Succeeded =>
        \A v \in Visits(args.instance, args.schema, "$") :
            DeprecatedAnyType(v.schema) =>
                Cardinality(ItemsAt(ret.report, "Warning", v.path)) = 1

\* C11: each occurrence in the instance of a field whose schema is a
\* descriptor (its `type` a type-name string) with a string `deprecated` has
\* exactly one Warning at its path, carrying the text, whatever the value
\* is, and no Error there when the value has the descriptor's type; no other
\* path has a Warning, an absent field's path in particular.
C11_Deprecation ==
    Succeeded =>
        LET visits == Visits(args.instance, args.schema, "$")
        IN  /\ \A v \in visits :
                  LET warned == ItemsAt(ret.report, "Warning", v.path)
                  IN  IF DeprecatedDescriptor(v.schema)
                      THEN /\ Cardinality(warned) = 1
                           /\ \A i \in warned :
                                 ret.report[i].message = "Deprecated usage: "
                                     \o Entry(v.schema.entries, "deprecated").s
                           /\ v.value.kind \in Accepts(Effective(v.schema).s)
                                 => ItemsAt(ret.report, "Error", v.path) = {}
                      ELSE warned = {}
            /\ \A i \in 1..Len(ret.report) :
                  ret.report[i].level = "Warning"
                      => \E v \in visits : v.path = ret.report[i].path

\* The example: a deprecated boolean field holding a boolean gives one
\* Warning and no Error.
C11_Witness ==
    /\ Succeeded
    /\ args.schema = object(<< <<"host", descriptor(string("boolean"),
                                   << <<"deprecated", string("use tls")>> >>)>> >>)
    /\ args.instance = object(<< <<"host", boolean(TRUE)>> >>)
    /\ ret.report = <<ValidationItem("Warning", "$.host", "Deprecated usage: use tls")>>

\* Two occurrences, the second of the wrong type: a Warning for each.
C11_WitnessEach ==
    /\ Succeeded
    /\ args.schema = array(<<descriptor(string("integer"),
                               << <<"deprecated", string("old")>> >>)>>)
    /\ args.instance = array(<<integer(1), string("x")>>)
    /\ ret.report = <<
           ValidationItem("Warning", "$[0]", "Deprecated usage: old"),
           ValidationItem("Warning", "$[1]", "Deprecated usage: old"),
           ValidationItem("Error", "$[1]", "Type mismatch: expected integer, found string") >>

(***************************************************************************)
(* Extended descriptors.                                                   *)
(***************************************************************************)
\* An Object with a `type` entry that is a schema node: a type-name string,
\* a structural object or a one-element array.
AnyTypeDescriptor(s) ==
    /\ s.kind = "object"
    /\ \E i \in 1..Len(s.entries) :
          /\ s.entries[i][1] = "type"
          /\ \/ s.entries[i][2].kind \in {"string", "object"}
             \/ s.entries[i][2].kind = "array" /\ Len(s.entries[i][2].items) = 1

\* The root schema s was unwrapped: the call returned what validating the
\* instance against the value of `type` returns, after the Warning of a
\* string `deprecated`.
Unwrapped(s) ==
    LET inner == validate(args.instance, Entry(s.entries, "type"))
        warning == IF HasStringDeprecated(s)
                   THEN <<ValidationItem("Warning", "$", "Deprecated usage: "
                               \o Entry(s.entries, "deprecated").s)>>
                   ELSE <<>>
    IN  IF inner.err = "Ok"
        THEN ret.err = "Ok" /\ ret.report = warning \o inner.report
        ELSE ret.err = "Err"

\* C17 as claimed: every Object with a `type` entry that is a schema node is
\* unwrapped, and its `optional: true` spares an absent field.
C17_DescriptorAnyType ==
    pc = "done" =>
        /\ AnyTypeDescriptor(args.schema) => Unwrapped(args.schema)
        /\ ret.err = "Ok" =>
              \A c \in StructuralChecks(args.instance, args.schema, "$") :
                  \A k \in KeySet(c.schema_obj) \ KeySet(c.instance_obj) :
                      MarksOptionalAnyType(Entry(c.schema_obj, k))
                          => Count(ret.report, MissingItem(c.path, k)) = 0

\* C17: an Object whose `type` is a string is unwrapped, its string
\* `deprecated` gives the Warning and its `optional: true` spares an absent
\* field.  An Object whose `type` is an object or an array is not: it is a
\* structural schema with a field named `type`, so a value that is no
\* object is reported as such, an object without the key `type` misses a
\* required field, no Warning is given, and `optional: true` spares nothing.
C17_Descriptor ==
    pc = "done" =>
        /\ IsDescriptor(args.schema) => Unwrapped(args.schema)
        /\ (AnyTypeDescriptor(args.schema) /\ ~IsDescriptor(args.schema) /\ ret.err = "Ok") =>
              /\ ItemsAt(ret.report, "Warning", "$") = {}
              /\ args.instance.kind # "object" =>
                    ret.report = <<ValidationItem("Error", "$",
                                      "Expected object, found " \o args.instance.kind)>>
              /\ (args.instance.kind = "object"
                      /\ ~contains_key(args.instance.entries, "type")) =>
                    Count(ret.report, MissingItem("$", "type")) = 1
        /\ ret.err = "Ok" =>
              \A c \in StructuralChecks(args.instance, args.schema, "$") :
                  \A k \in KeySet(c.schema_obj) \ KeySet(c.instance_obj) :
                      Count(ret.report, MissingItem(c.path, k)) =
                          IF MarksOptional(Entry(c.schema_obj, k)) THEN 0 ELSE 1

\* A descriptor with a string `type` at the root: the Warning, then the
\* mismatch the type name gives.
C17_Witness ==
    /\ pc = "done"
    /\ args.schema = descriptor(string("integer"), << <<"deprecated", string("old")>> >>)
    /\ args.instance = string("x")
    /\ ret.err = "Ok"
    /\ ret.report = << ValidationItem("Warning", "$", "Deprecated usage: old"),
                       MismatchItem("$", "integer", "string") >>

\* An Object whose `type` is a one-element array, against an array: the
\* array is measured against an object schema.
C17_WitnessStructural ==
    /\ pc = "done"
    /\ args.schema = descriptor(array(<<string("integer")>>),
                                << <<"deprecated", string("old")>> >>)
    /\ args.instance = array(<<integer(1), string("x")>>)
    /\ ret.err = "Ok"
    /\ ret.report = <<ValidationItem("Error", "$", "Expected object, found array")>>

(***************************************************************************)
(* Array schemas and type names, at the root of a validation.              *)
(***************************************************************************)
\* The path of the element of index i - 1 of the root.
ElementPath(i) == <<"$[0]", "$[1]", "$[2]", "$[3]">>[i]

\* The reports of the elements, one after the other, up to the first
\* element whose check is fatal.
RECURSIVE ElementsFrom(_, _, _)
ElementsFrom(items, item_schema, i) ==
    IF i > Len(items) THEN Passed(<<>>)
    ELSE LET Then(here, rest) ==
                 IF IsSome(here.fatal) THEN here
                 ELSE IF IsSome(rest.fatal) THEN rest
                 ELSE Passed(here.report \o rest.report)
         IN  Then(validate_recursive(items[i], item_schema, ElementPath(i), <<>>),
                  ElementsFrom(items, item_schema, i + 1))

\* C22: against an array schema of one element an Array has each element
\* checked against it at $[i], in order, an empty Array has no finding and
\* any other value has the one Error at $; an array schema of another
\* length is the fatal Err whatever the instance.
C22_ArraySchema ==
    (pc = "done" /\ args.schema.kind = "array") =>
        IF Len(args.schema.items) # 1
        THEN ret = [err |-> "Err",
                    item |-> ValidationItem("Error", "$",
                        "Array schema must contain exactly one element specifier")]
        ELSE IF args.instance.kind # "array"
        THEN ret = [err |-> "Ok",
                    report |-> <<ValidationItem("Error", "$",
                        "Expected array, found " \o args.instance.kind)>>]
        ELSE LET elements == ElementsFrom(args.instance.items, args.schema.items[1], 1)
             IN  /\ args.instance.items = <<>> => ret = [err |-> "Ok", report |-> <<>>]
                 /\ IF IsSome(elements.fatal)
                    THEN ret = [err |-> "Err", item |-> elements.fatal.some]
                    ELSE ret = [err |-> "Ok", report |-> elements.report]

\* An array of arrays against [["integer"]]: the string in the first
\* element and the float that is no array are reported at their indices.
C22_Witness ==
    /\ pc = "done"
    /\ args.schema = array(<<array(<<string("integer")>>)>>)
    /\ args.instance = array(<<array(<<integer(1), string("x")>>), array(<<>>), float(2)>>)
    /\ ret = [err |-> "Ok",
              report |-> << MismatchItem("$[0][1]", "integer", "string"),
                            ValidationItem("Error", "$[2]", "Expected array, found float") >>]

\* An array schema of two elements against a value that is no array.
C22_WitnessFatal ==
    /\ pc = "done"
    /\ args.schema.kind = "array" /\ Len(args.schema.items) = 2
    /\ args.instance.kind = "integer"
    /\ ret.err = "Err"

\* C23: a value checked against a recognized type name passes without a
\* finding when its kind is one the name accepts (`any` all, `number`
\* Integer and Float, `boolean` and `bool` Bool, every other name its own
\* kind), and has the one Error naming the name and the kind otherwise.
C23_TypeNames ==
    (pc = "done" /\ args.schema.kind = "string" /\ args.schema.s \in KnownTypes) =>
        LET matches ==
              CASE args.schema.s = "any" -> TRUE
                [] args.schema.s = "number" -> args.instance.kind \in {"integer", "float"}
                [] args.schema.s \in {"boolean", "bool"} -> args.instance.kind = "boolean"
                [] OTHER -> args.instance.kind = args.schema.s
        IN  ret = [err |-> "Ok",
                   report |-> IF matches THEN <<>>
                              ELSE <<ValidationItem("Error", "$",
                                       "Type mismatch: expected " \o args.schema.s
                                           \o ", found " \o args.instance.kind)>>]

\* An Integer against `float`: the mismatch.
C23_Witness ==
    /\ pc = "done"
    /\ args.schema = string("float") /\ args.instance = integer(1)
    /\ ret = [err |-> "Ok",
              report |-> <<ValidationItem("Error", "$",
                             "Type mismatch: expected float, found integer")>>]

\* Every recognized name is checked against a value it accepts and, `any`
\* apart, against one it does not.
C23_WitnessNumber ==
    /\ pc = "done"
    /\ args.schema = string("number") /\ args.instance.kind = "float"
    /\ ret = [err |-> "Ok", report |-> <<>>]

(***************************************************************************)
(* levenshtein(a, b) as a call.                                            *)
(***************************************************************************)
InitLevenshtein ==
    /\ pc = "ready"
    /\ \E a \in Words, b \in Words : args = [a |-> Concat(a), b |-> Concat(b)]
    /\ files = None
    /\ tree = None
    /\ ret = None
    /\ reads = <<>>
    /\ stack = <<>>
    /\ composed = None
    /\ env = NoEnvironment

CallLevenshtein ==
    /\ pc = "ready"
    /\ ret' = levenshtein(args.a, args.b)
    /\ pc' = "done"
    /\ UNCHANGED <<args, files, env, tree, reads, stack, composed>>

NextLevenshtein == CallLevenshtein

SpecLevenshtein == InitLevenshtein /\ [][NextLevenshtein]_vars

\* The scripts of at most n edits: what they make of x when they have to
\* make y of it.  An edit deletes the first character of x, inserts the
\* first of y or substitutes one for the other; equal first characters are
\* passed over for nothing.
RECURSIVE WithinEdits(_, _, _)
WithinEdits(x, y, n) ==
    IF x = <<>> THEN Len(y) <= n
    ELSE IF y = <<>> THEN Len(x) <= n
    ELSE \/ Head(x) = Head(y) /\ WithinEdits(Tail(x), Tail(y), n)
         \/ n > 0 /\ \/ WithinEdits(Tail(x), y, n - 1)
                     \/ WithinEdits(x, Tail(y), n - 1)
                     \/ WithinEdits(Tail(x), Tail(y), n - 1)

\* C24: levenshtein(a, b) is the least number of insertions, deletions and
\* substitutions that make b of a; it is 0 exactly when a = b, the same
\* from b to a, and the length of the other string when one is empty.
C24_Levenshtein ==
    pc = "done" =>
        LET x == chars(args.a)
            y == chars(args.b)
        IN  /\ WithinEdits(x, y, ret)
            /\ ret > 0 => ~WithinEdits(x, y, ret - 1)
            /\ ret = EditDistance(x, y)
            /\ (ret = 0) <=> (args.a = args.b)
            /\ ret = levenshtein(args.b, args.a)
            /\ args.a = "" => ret = Len(y)
            /\ args.b = "" => ret = Len(x)

\* kitten and sitting: two substitutions and an insertion.
C24_Witness ==
    /\ pc = "done"
    /\ args = [a |-> "kitten", b |-> "sitting"]
    /\ ret = 3

\* The other cases of test_levenshtein.
C24_WitnessEmpty ==
    /\ pc = "done"
    /\ args = [a |-> "", b |-> "abc"]
    /\ ret = 3

(***************************************************************************)
(* The lexer (lexer.rs).  A source text is the sequence of its characters, *)
(* each a one-character string.  The lexer's cursor lx is its position     *)
(* (the number of characters consumed), line and column.  A token is a     *)
(* record: its variant in the field token, and the variant's payload (s    *)
(* for Identifier and String, i for Integer, f for Float, c for Comment);  *)
(* the token list pairs each token with the position of its first          *)
(* character.  The lexer of lexer.rs drops comments and knows no           *)
(* environment variable; the lexer the parser is built on (syntax::lexer)  *)
(* emits comments as Comment tokens, replaces the references to            *)
(* environment variables and is the same otherwise: its functions are      *)
(* syntax_skip_whitespace, syntax_lex_string, lex_env_var,                 *)
(* syntax_next_token and syntax_tokenize below.                            *)
(***************************************************************************)
Digits == <<"0", "1", "2", "3", "4", "5", "6", "7", "8", "9">>
is_ascii_digit(ch) == \E d \in 1..10 : Digits[d] = ch
to_digit(ch) == (CHOOSE d \in 1..10 : Digits[d] = ch) - 1

Letters ==
    { "a", "b", "c", "d", "e", "f", "g", "h", "i", "j", "k", "l", "m",
      "n", "o", "p", "q", "r", "s", "t", "u", "v", "w", "x", "y", "z",
      "A", "B", "C", "D", "E", "F", "G", "H", "I", "J", "K", "L", "M",
      "N", "O", "P", "Q", "R", "S", "T", "U", "V", "W", "X", "Y", "Z" }

\* The letters and numbers of U+0080..U+00FF (the general categories L*, Nd,
\* Nl and No); a string of the model holds no character above U+00FF.
OtherAlphanumerics ==
    { "ª", "²", "³", "µ", "¹", "º", "¼", "½", "¾", "À", "Á", "Â",
      "Ã", "Ä", "Å", "Æ", "Ç", "È", "É", "Ê", "Ë", "Ì", "Í", "Î",
      "Ï", "Ð", "Ñ", "Ò", "Ó", "Ô", "Õ", "Ö", "Ø", "Ù", "Ú", "Û",
      "Ü", "Ý", "Þ", "ß", "à", "á", "â", "ã", "ä", "å", "æ", "ç",
      "è", "é", "ê", "ë", "ì", "í", "î", "ï", "ð", "ñ", "ò", "ó",
      "ô", "õ", "ö", "ø", "ù", "ú", "û", "ü", "ý", "þ", "ÿ" }

\* char::is_alphanumeric: a letter or a number, of any script the model's
\* strings can be written in.
is_alphanumeric(ch) ==
    ch \in Letters \/ is_ascii_digit(ch) \/ ch \in OtherAlphanumerics

is_at_end(input, lx) == lx.position >= Len(input)

\* current_char: the character under the cursor (NUL at the end of input,
\* which no text contains).
current_char(input, lx) ==
    IF is_at_end(input, lx) THEN "NUL" ELSE input[lx.position + 1]

\* A newline starts a line without taking the column back to 1.
advance_keep_column(input, lx) ==
    IF lx.position >= Len(input) THEN lx
    ELSE [position |-> lx.position + 1,
          line |-> IF input[lx.position + 1] = "\n" THEN lx.line + 1 ELSE lx.line,
          column |-> lx.column + 1]

\* advance: the one place where line and column change.
advance(input, lx) ==
    IF is_at_end(input, lx) THEN lx
    ELSE IF input[lx.position + 1] = "\n"
         THEN [position |-> lx.position + 1, line |-> lx.line + 1, column |-> 1]
         ELSE [position |-> lx.position + 1, line |-> lx.line,
               column |-> lx.column + 1]

\* Lexer::error: a LexError at the cursor's line and column.
error(lx, message) ==
    [err |-> "LexError", message |-> message, line |-> lx.line, column |-> lx.column]

\* What a lexing function hands back: the token and the cursor after it.
Lexed(token, lx) == [err |-> "Ok", token |-> token, lx |-> lx]

\* peek_next: the character after the one under the cursor.
peek_next(input, lx) ==
    IF lx.position + 1 < Len(input) THEN [some |-> input[lx.position + 2]] ELSE None

\* while !is_at_end() && current_char() != '\n' { advance() }
RECURSIVE SkipLine(_, _)
SkipLine(input, lx) ==
    IF ~is_at_end(input, lx) /\ current_char(input, lx) # "\n"
    THEN SkipLine(input, advance(input, lx))
    ELSE lx

\* skip_whitespace_and_comments: blanks are passed over, and a comment up
\* to its newline, which is left for the next token.
RECURSIVE skip_whitespace_and_comments(_, _)
skip_whitespace_and_comments(input, lx) ==
    IF is_at_end(input, lx) THEN lx
    ELSE IF current_char(input, lx) \in {" ", "\t", "\r"}
    THEN skip_whitespace_and_comments(input, advance(input, lx))
    ELSE IF current_char(input, lx) = "/" /\ peek_next(input, lx) = [some |-> "/"]
    THEN skip_whitespace_and_comments(input, SkipLine(input, lx))
    ELSE lx

\* The blanks alone are passed over: a comment is a token.
RECURSIVE syntax_skip_whitespace(_, _)
syntax_skip_whitespace(input, lx) ==
    IF ~is_at_end(input, lx) /\ current_char(input, lx) \in {" ", "\t", "\r"}
    THEN syntax_skip_whitespace(input, advance(input, lx))
    ELSE lx

lex_string(input, lx) ==
    LET RECURSIVE Body(_, _)
        Body(l, result) ==
            IF ~is_at_end(input, l) /\ current_char(input, l) # "\""
            THEN IF current_char(input, l) = "\\"
                 THEN LET l1 == advance(input, l)
                          ch == current_char(input, l1)
                      IN  IF is_at_end(input, l1)
                          THEN error(l1, "Unterminated string: unexpected EOF")
                          ELSE IF ch \in {"n", "t", "r", "\\", "\""}
                          THEN Body(advance(input, l1),
                                    result \o (CASE ch = "n" -> "\n"
                                                 [] ch = "t" -> "\t"
                                                 [] ch = "r" -> "\r"
                                                 [] OTHER -> ch))
                          ELSE error(l1, "Invalid escape sequence: \\" \o ch)
                 ELSE Body(advance(input, l), result \o current_char(input, l))
            ELSE IF is_at_end(input, l)
                 THEN error(l, "Unterminated string")
                 ELSE Lexed([token |-> "String", s |-> result], advance(input, l))
    IN  Body(advance(input, lx), "")

\* while !is_at_end() && current_char().is_ascii_digit() { advance() }
RECURSIVE SkipDigits(_, _)
SkipDigits(input, lx) ==
    IF ~is_at_end(input, lx) /\ is_ascii_digit(current_char(input, lx))
    THEN SkipDigits(input, advance(input, lx))
    ELSE lx

\* The value of a run of decimal digits.
RECURSIVE DigitsValue(_, _)
DigitsValue(cs, acc) ==
    IF cs = <<>> THEN acc
    ELSE DigitsValue(Tail(cs), acc * 10 + to_digit(Head(cs)))

\* A run of digits without its leading zeros.
RECURSIVE StripZeros(_)
StripZeros(cs) ==
    IF Len(cs) > 1 /\ Head(cs) = "0" THEN StripZeros(Tail(cs)) ELSE cs

\* The number cs is at most the number limit, both runs of digits without
\* leading zeros: it is shorter, or as long and not after it digit by digit.
DigitsAtMost(cs, limit) ==
    \/ Len(cs) < Len(limit)
    \/ /\ Len(cs) = Len(limit)
       /\ \A i \in 1..Len(cs) :
              (\A j \in 1..(i - 1) : cs[j] = limit[j]) =>
                  to_digit(cs[i]) <= to_digit(limit[i])

\* i64::MAX and the magnitude of i64::MIN, in digits.
I64MaxDigits ==
    <<"9", "2", "2", "3", "3", "7", "2", "0", "3", "6", "8", "5", "4", "7", "7",
      "5", "8", "0", "7">>
I64MinDigits ==
    <<"9", "2", "2", "3", "3", "7", "2", "0", "3", "6", "8", "5", "4", "7", "7",
      "5", "8", "0", "8">>

\* str::parse::<i64> on the text lex_number collected: an optional minus
\* sign and a run of digits; a sign alone is not a number, and neither is a
\* number below i64::MIN or above i64::MAX.
parse_i64(num_str) ==
    LET neg == num_str # <<>> /\ Head(num_str) = "-"
        digits == IF neg THEN Tail(num_str) ELSE num_str
    IN  IF digits = <<>> THEN None
        ELSE IF ~DigitsAtMost(StripZeros(digits),
                              IF neg THEN I64MinDigits ELSE I64MaxDigits)
        THEN None
        ELSE Some(IF neg THEN 0 - DigitsValue(digits, 0) ELSE DigitsValue(digits, 0))

(***************************************************************************)
(* 64-bit floats.  A finite f64 other than zero is held as its sign and    *)
(* the shortest decimal m * 10^e (m not divisible by ten) that rounds to   *)
(* it, which is the decimal its Display prints; zero is m = 0, e = 0 with  *)
(* its sign, and an infinity holds its sign alone.  The magnitudes of the  *)
(* finite f64 are k * 2^q with k < 2^53 and q in -1074..971.               *)
(***************************************************************************)
Infinity(neg) == [neg |-> neg, inf |-> TRUE]
Zero(neg) == [neg |-> neg, m |-> 0, e |-> 0]
IsInfinite(f) == "inf" \in DOMAIN f

RECURSIVE DecimalLength(_)
DecimalLength(m) == IF m < 10 THEN 1 ELSE 1 + DecimalLength(m \div 10)

\* m * 10^e and k * 2^q multiplied by the same powers of ten and two, which
\* makes integers of both.
DecimalSide(m, e, q) ==
    m * 10^(IF e > 0 THEN e ELSE 0) * 2^(IF q < 0 THEN 0 - q ELSE 0)
BinarySide(k, e, q) ==
    k * 10^(IF e < 0 THEN 0 - e ELSE 0) * 2^(IF q > 0 THEN q ELSE 0)

\* The decimal exponent of the first digit of m * 10^e.
DecimalExponent(m, e) == e + DecimalLength(m) - 1

\* m * 10^e is at least halfway from the largest f64 to 2^1024: it rounds
\* to an infinity.  The decimal exponent of its first digit decides, except
\* at 308.
Overflows(m, e) ==
    IF DecimalExponent(m, e) > 308 THEN TRUE
    ELSE IF DecimalExponent(m, e) < 308 THEN FALSE
    ELSE DecimalSide(m, e, 970) >= BinarySide(2^54 - 1, e, 970)

\* m * 10^e is at most half the smallest f64 above zero: it rounds to zero.
Vanishes(m, e) ==
    IF DecimalExponent(m, e) < 0 - 324 THEN TRUE
    ELSE IF DecimalExponent(m, e) > 0 - 324 THEN FALSE
    ELSE DecimalSide(m, e, 0 - 1075) <= BinarySide(1, e, 0 - 1075)

\* The binary exponent q of the f64 around m * 10^e: the one that leaves 53
\* bits before the point, and -1074 for the subnormal ones.
BinaryExponent(m, e) ==
    CHOOSE x \in (0 - 1074)..971 :
        /\ DecimalSide(m, e, x) < BinarySide(2^53, e, x)
        /\ x = 0 - 1074 \/ DecimalSide(m, e, x) >= BinarySide(2^52, e, x)

\* The integer nearest to A / B, the even one of two equally near.
RoundHalfEven(A, B) ==
    IF 2 * (A % B) < B THEN A \div B
    ELSE IF 2 * (A % B) > B THEN A \div B + 1
    ELSE IF (A \div B) % 2 = 0 THEN A \div B ELSE A \div B + 1

\* The f64 nearest to m * 10^e, which neither overflows nor vanishes: the
\* multiple k * 2^q nearest to it.
NearestAt(m, e, q) ==
    [k |-> RoundHalfEven(DecimalSide(m, e, q), BinarySide(1, e, q)), q |-> q]
Nearest(m, e) == NearestAt(m, e, BinaryExponent(m, e))

SameF64(x, y) == x.k * 2^(x.q + 1074) = y.k * 2^(y.q + 1074)

\* The decimals that round to the f64 x.
RoundsTo(r, x) ==
    /\ r.m % 10 # 0
    /\ ~Overflows(r.m, r.e) /\ ~Vanishes(r.m, r.e)
    /\ SameF64(Nearest(r.m, r.e), x)

Magnitude(d) == IF d < 0 THEN 0 - d ELSE d

\* How far the decimal r is from the f64 x, in units of 10^(-E) * 2^(-1074).
Distance(r, x, E) ==
    Magnitude(r.m * 10^(r.e + E) * 2^1074 - x.k * 2^(x.q + 1074) * 10^E)

\* A power of ten that makes integers of the decimals r and o.
Scale(r, o) ==
    IF r.e >= 0 /\ o.e >= 0 THEN 0 ELSE IF r.e < o.e THEN 0 - r.e ELSE 0 - o.e

\* The shortest decimal that rounds to x, and the nearest to x of the
\* shortest.
ShortestDecimal(x) ==
    CHOOSE r \in [m : Nat \ {0}, e : Int] :
        /\ RoundsTo(r, x)
        /\ \A o \in [m : Nat \ {0}, e : Int] :
              RoundsTo(o, x) =>
                  \/ DecimalLength(r.m) < DecimalLength(o.m)
                  \/ /\ DecimalLength(r.m) = DecimalLength(o.m)
                     /\ Distance(r, x, Scale(r, o)) <= Distance(o, x, Scale(r, o))

\* The decimal m * 10^e, m above zero, with m not divisible by ten.
RECURSIVE NormalDecimal(_, _)
NormalDecimal(m, e) ==
    IF m % 10 = 0 THEN NormalDecimal(m \div 10, e + 1) ELSE [m |-> m, e |-> e]

\* The f64 of the sign neg nearest to the decimal d.  A decimal of at most
\* 15 digits in the range of the normal f64 is the shortest decimal of the
\* f64 it rounds to.
Rounded(neg, d) ==
    IF Overflows(d.m, d.e) THEN Infinity(neg)
    ELSE IF Vanishes(d.m, d.e) THEN Zero(neg)
    ELSE IF DecimalLength(d.m) <= 15 /\ DecimalExponent(d.m, d.e) >= 0 - 307
    THEN [neg |-> neg, m |-> d.m, e |-> d.e]
    ELSE [neg |-> neg,
          m |-> ShortestDecimal(Nearest(d.m, d.e)).m,
          e |-> ShortestDecimal(Nearest(d.m, d.e)).e]

\* The f64 a decimal literal of value m * 10^e denotes.
to_f64(neg, m, e) ==
    IF m = 0 THEN Zero(neg) ELSE Rounded(neg, NormalDecimal(m, e))

\* str::parse::<f64> on the text lex_number collected: mantissa digits with
\* an optional fraction, then an optional exponent; a mantissa without any
\* digit is not a number.  The literal's decimal is rounded to the nearest
\* f64: to an infinity above the largest, to zero below the smallest.
parse_f64(num_str) ==
    LET RECURSIVE EndOfDigits(_)
        EndOfDigits(i) ==
            IF i <= Len(num_str) /\ is_ascii_digit(num_str[i])
            THEN EndOfDigits(i + 1) ELSE i
        neg == num_str # <<>> /\ Head(num_str) = "-"
        a == IF neg THEN 2 ELSE 1
        b == EndOfDigits(a)
        has_dot == b <= Len(num_str) /\ num_str[b] = "."
        c == IF has_dot THEN EndOfDigits(b + 1) ELSE b
        int_digits == SubSeq(num_str, a, b - 1)
        frac_digits == IF has_dot THEN SubSeq(num_str, b + 1, c - 1) ELSE <<>>
        has_exp == c <= Len(num_str)
        exp_neg == has_exp /\ c + 1 <= Len(num_str) /\ num_str[c + 1] = "-"
        exp_signed == has_exp /\ c + 1 <= Len(num_str) /\ num_str[c + 1] \in {"+", "-"}
        exp_digits == IF ~has_exp THEN <<>>
                      ELSE SubSeq(num_str, IF exp_signed THEN c + 2 ELSE c + 1,
                                  Len(num_str))
        exp == IF exp_neg THEN 0 - DigitsValue(exp_digits, 0)
               ELSE DigitsValue(exp_digits, 0)
    IN  IF int_digits = <<>> /\ frac_digits = <<>> THEN None
        ELSE Some(to_f64(neg, DigitsValue(int_digits \o frac_digits, 0),
                         exp - Len(frac_digits)))

\* lex_number: sign, digits, a fraction when a digit follows the point, an
\* exponent; its errors carry the position of the literal's first character.
lex_number(input, lx) ==
    LET l1 == IF current_char(input, lx) = "-" THEN advance(input, lx) ELSE lx
        l2 == SkipDigits(input, l1)
        dot == /\ ~is_at_end(input, l2)
               /\ current_char(input, l2) = "."
               /\ l2.position + 1 < Len(input)
               /\ is_ascii_digit(input[l2.position + 2])
        l3 == IF dot THEN SkipDigits(input, advance(input, l2)) ELSE l2
        exponent == ~is_at_end(input, l3) /\ current_char(input, l3) \in {"e", "E"}
        l4 == advance(input, l3)
        l5 == IF ~is_at_end(input, l4) /\ current_char(input, l4) \in {"+", "-"}
              THEN advance(input, l4) ELSE l4
        l6 == IF exponent THEN SkipDigits(input, l5) ELSE l3
        is_float == dot \/ exponent
        num_str == SubSeq(input, lx.position + 1, l6.position)
        f == parse_f64(num_str)
        i == parse_i64(num_str)
    IN  IF exponent /\ (is_at_end(input, l5) \/ ~is_ascii_digit(current_char(input, l5)))
        THEN error(lx, "Invalid exponent in number")
        ELSE IF is_float
        THEN IF IsSome(f) THEN Lexed([token |-> "Float", f |-> f.some], l6)
             ELSE error(lx, "Invalid float: " \o Concat(num_str))
        ELSE IF IsSome(i) THEN Lexed([token |-> "Integer", i |-> i.some], l6)
             ELSE error(lx, "Invalid integer: " \o Concat(num_str))

lex_identifier(input, lx) ==
    LET RECURSIVE Skip(_)
        Skip(l) ==
            IF /\ ~is_at_end(input, l)
               /\ \/ is_alphanumeric(current_char(input, l))
                  \/ current_char(input, l) = "_"
            THEN Skip(advance(input, l))
            ELSE l
        l1 == Skip(lx)
        ident == Concat(SubSeq(input, lx.position + 1, l1.position))
    IN  Lexed(CASE ident = "true" -> [token |-> "True"]
                [] ident = "false" -> [token |-> "False"]
                [] ident = "null" -> [token |-> "Null"]
                [] OTHER -> [token |-> "Identifier", s |-> ident],
              l1)

\* A comment runs from `//` to the end of the line; the token carries its
\* text without the marker and without surrounding blanks, and the newline
\* is left for the next token.
lex_comment(input, lx) ==
    LET RECURSIVE trim_start(_)
        trim_start(cs) ==
            IF cs # <<>> /\ Head(cs) \in {" ", "\t", "\r"}
            THEN trim_start(Tail(cs)) ELSE cs
        RECURSIVE trim_end(_)
        trim_end(cs) ==
            IF cs # <<>> /\ cs[Len(cs)] \in {" ", "\t", "\r"}
            THEN trim_end(SubSeq(cs, 1, Len(cs) - 1)) ELSE cs
        l1 == SkipLine(input, lx)
        text == SubSeq(input, lx.position + 3, l1.position)
    IN  Lexed([token |-> "Comment", c |-> Concat(trim_end(trim_start(text)))], l1)

next_token(input, lx) ==
    LET ch == current_char(input, lx)
    IN  CASE ch = "\n" -> Lexed([token |-> "Newline"], advance(input, lx))
          [] ch = "{" -> Lexed([token |-> "LeftBrace"], advance(input, lx))
          [] ch = "}" -> Lexed([token |-> "RightBrace"], advance(input, lx))
          [] ch = "[" -> Lexed([token |-> "LeftBracket"], advance(input, lx))
          [] ch = "]" -> Lexed([token |-> "RightBracket"], advance(input, lx))
          [] ch = ":" -> Lexed([token |-> "Colon"], advance(input, lx))
          [] ch = "," -> Lexed([token |-> "Comma"], advance(input, lx))
          [] ch = "\"" -> lex_string(input, lx)
          [] ch = "-" \/ is_ascii_digit(ch) -> lex_number(input, lx)
          [] ch \in Letters \/ ch = "_" -> lex_identifier(input, lx)
          [] OTHER -> error(lx, "Unexpected character: '" \o ch \o "'")

\* tokenize: blanks and comments skipped, then Eof at the end of the input
\* or the next token, each with the position of its first character.
tokenize(input) ==
    LET RECURSIVE Loop(_, _)
        Loop(lx, tokens) ==
            LET l1 == skip_whitespace_and_comments(input, lx)
                pos == [line |-> l1.line, column |-> l1.column]
                t == next_token(input, l1)
            IN  IF is_at_end(input, l1)
                THEN [err |-> "Ok",
                      tokens |-> Append(tokens, [token |-> [token |-> "Eof"], pos |-> pos])]
                ELSE IF t.err # "Ok" THEN t
                ELSE Loop(t.lx, Append(tokens, [token |-> t.token, pos |-> pos]))
    IN  Loop([position |-> 0, line |-> 1, column |-> 1], <<>>)

(***************************************************************************)
(* Environment variables.  The parser's lexer replaces `${NAME}` by the    *)
(* value of the variable NAME of the process: inside a string the value   *)
(* takes the place of the reference, and a reference that stands alone is  *)
(* a token of the kind its value reads as.  What is modelled is what the   *)
(* tests of the repository state (tests/env_var_tests.rs,                  *)
(* examples/env_vars.rs); of an error the tests state that it is one and   *)
(* that its message holds the words "not found".                           *)
(***************************************************************************)
\* The reference `${NAME}` the cursor is at: the value of the variable and
\* the cursor after the closing brace, or the error of a variable that is
\* not set.
lex_env_reference(input, lx) ==
    LET RECURSIVE EndOfName(_)
        EndOfName(l) ==
            IF ~is_at_end(input, l) /\ current_char(input, l) # "}"
            THEN EndOfName(advance(input, l))
            ELSE l
        Found(first, last) ==
            IF is_at_end(input, last)
            THEN error(lx, "Unterminated environment variable reference")
            ELSE IF Concat(SubSeq(input, first.position + 1, last.position)) \notin DOMAIN env
            THEN error(lx, "Environment variable '"
                           \o Concat(SubSeq(input, first.position + 1, last.position))
                           \o "' not found")
            ELSE [err |-> "Ok",
                  value |-> env[Concat(SubSeq(input, first.position + 1, last.position))],
                  lx |-> advance(input, last)]
        From(first) == Found(first, EndOfName(first))
    IN  From(advance(input, advance(input, lx)))

\* The token a value stands for when its reference stands alone: an
\* Integer or a Float when the value is a decimal literal of that kind, a
\* boolean when it is `true` or `false`, and a String otherwise.
InferToken(value) ==
    LET Signless(cs) == IF cs # <<>> /\ Head(cs) = "-" THEN Tail(cs) ELSE cs
        AllDigits(cs) == cs # <<>> /\ \A i \in 1..Len(cs) : is_ascii_digit(cs[i])
        IsInteger(cs) == AllDigits(Signless(cs))
        IsFloat(cs) ==
            \E d \in 2..(Len(Signless(cs)) - 1) :
                /\ Signless(cs)[d] = "."
                /\ AllDigits(SubSeq(Signless(cs), 1, d - 1))
                /\ AllDigits(SubSeq(Signless(cs), d + 1, Len(Signless(cs))))
    IN  IF IsInteger(chars(value)) /\ IsSome(parse_i64(chars(value)))
        THEN [token |-> "Integer", i |-> parse_i64(chars(value)).some]
        ELSE IF IsInteger(chars(value)) \/ IsFloat(chars(value))
        THEN [token |-> "Float", f |-> parse_f64(chars(value)).some]
        ELSE IF value = "true" THEN [token |-> "True"]
        ELSE IF value = "false" THEN [token |-> "False"]
        ELSE [token |-> "String", s |-> value]

\* A reference that stands alone.
lex_env_var(input, lx) ==
    LET Token(ref) == IF ref.err # "Ok" THEN ref ELSE Lexed(InferToken(ref.value), ref.lx)
    IN  Token(lex_env_reference(input, lx))

\* lex_string of the parser's lexer: `\$` is the escape of a dollar sign,
\* and a `$` followed by `{` begins a reference, whose value is pushed in
\* its place; everything else is lex_string.
syntax_lex_string(input, lx) ==
    LET RECURSIVE Body(_, _)
        Body(l, result) ==
            IF ~is_at_end(input, l) /\ current_char(input, l) # "\""
            THEN IF current_char(input, l) = "\\"
                 THEN LET l1 == advance(input, l)
                          ch == current_char(input, l1)
                      IN  IF is_at_end(input, l1)
                          THEN error(l1, "Unterminated string: unexpected EOF")
                          ELSE IF ch \in {"n", "t", "r", "\\", "\"", "$"}
                          THEN Body(advance(input, l1),
                                    result \o (CASE ch = "n" -> "\n"
                                                 [] ch = "t" -> "\t"
                                                 [] ch = "r" -> "\r"
                                                 [] OTHER -> ch))
                          ELSE error(l1, "Invalid escape sequence: \\" \o ch)
                 ELSE IF current_char(input, l) = "$" /\ peek_next(input, l) = [some |-> "{"]
                 THEN LET After(ref) ==
                              IF ref.err # "Ok" THEN ref
                              ELSE Body(ref.lx, result \o ref.value)
                      IN  After(lex_env_reference(input, l))
                 ELSE Body(advance(input, l), result \o current_char(input, l))
            ELSE IF is_at_end(input, l)
                 THEN error(l, "Unterminated string")
                 ELSE Lexed([token |-> "String", s |-> result], advance(input, l))
    IN  Body(advance(input, lx), "")

\* The next token of the parser's lexer: a Comment at `//`, a string with
\* its references replaced, the token of a reference that stands alone,
\* and what next_token gives everywhere else.
syntax_next_token(input, lx) ==
    IF current_char(input, lx) = "/" /\ peek_next(input, lx) = [some |-> "/"]
    THEN lex_comment(input, lx)
    ELSE IF current_char(input, lx) = "\""
    THEN syntax_lex_string(input, lx)
    ELSE IF current_char(input, lx) = "$" /\ peek_next(input, lx) = [some |-> "{"]
    THEN lex_env_var(input, lx)
    ELSE next_token(input, lx)

\* The token list the parser is given: blanks skipped, comments and
\* newlines kept as tokens, each with the position of its first character.
syntax_tokenize(input) ==
    LET RECURSIVE Loop(_, _)
        Loop(lx, tokens) ==
            LET l1 == syntax_skip_whitespace(input, lx)
                pos == [line |-> l1.line, column |-> l1.column]
                t == syntax_next_token(input, l1)
            IN  IF is_at_end(input, l1)
                THEN [err |-> "Ok",
                      tokens |-> Append(tokens, [token |-> [token |-> "Eof"], pos |-> pos])]
                ELSE IF t.err # "Ok" THEN t
                ELSE Loop(t.lx, Append(tokens, [token |-> t.token, pos |-> pos]))
    IN  Loop([position |-> 0, line |-> 1, column |-> 1], <<>>)

(***************************************************************************)
(* Formatting of numbers (i64 and f64 Display), as sequences of            *)
(* characters.  An f64 is written in plain decimal notation with the       *)
(* shortest digits that denote it: no exponent, and no fraction when the   *)
(* value is whole.                                                         *)
(***************************************************************************)
RECURSIVE NatDigits(_)
NatDigits(n) ==
    IF n < 10 THEN <<Digits[n + 1]>>
    ELSE Append(NatDigits(n \div 10), Digits[(n % 10) + 1])

i64_to_string(i) == IF i < 0 THEN <<"-">> \o NatDigits(0 - i) ELSE NatDigits(i)

f64_to_string(f) ==
    LET Zeros(n) == [k \in 1..n |-> "0"]
        d == NatDigits(f.m)
        body == IF f.e >= 0 THEN d \o Zeros(f.e)
                ELSE IF Len(d) > 0 - f.e
                THEN SubSeq(d, 1, Len(d) + f.e) \o <<".">>
                         \o SubSeq(d, Len(d) + f.e + 1, Len(d))
                ELSE <<"0", ".">> \o Zeros(0 - f.e - Len(d)) \o d
    IN  IF IsInfinite(f) THEN (IF f.neg THEN <<"-", "i", "n", "f">> ELSE <<"i", "n", "f">>)
        ELSE IF f.neg THEN <<"-">> \o body ELSE body

\* impl Display for Token.
TokenDisplay(t) ==
    CASE t.token = "Identifier" -> "identifier '" \o t.s \o "'"
      [] t.token = "String" -> "string \"" \o t.s \o "\""
      [] t.token = "Integer" -> "integer " \o Concat(i64_to_string(t.i))
      [] t.token = "Float" -> "float " \o Concat(f64_to_string(t.f))
      [] t.token = "True" -> "true"
      [] t.token = "False" -> "false"
      [] t.token = "Null" -> "null"
      [] t.token = "LeftBrace" -> "{"
      [] t.token = "RightBrace" -> "}"
      [] t.token = "LeftBracket" -> "["
      [] t.token = "RightBracket" -> "]"
      [] t.token = "Colon" -> ":"
      [] t.token = "Comma" -> ","
      [] t.token = "Newline" -> "newline"
      [] t.token = "Eof" -> "EOF"

(***************************************************************************)
(* The parser (syntax/parser.rs): recursive descent over the tokens.  The  *)
(* parser's position is the number of tokens consumed; a parsing function  *)
(* hands back the value and the position after it, or the ParseError.      *)
(***************************************************************************)
ParsedAt(value, position) == [err |-> "Ok", value |-> value, position |-> position]

current_token(tokens, position) ==
    IF position >= Len(tokens) THEN [token |-> "Eof"] ELSE tokens[position + 1].token

\* error_at_current: a ParseError at current_position, the position of the
\* current token (line 1, column 1 past the last token).
error_at_current(tokens, position, message) ==
    LET pos == IF position >= Len(tokens) THEN [line |-> 1, column |-> 1]
               ELSE tokens[position + 1].pos
    IN  [err |-> "ParseError", message |-> message,
         line |-> pos.line, column |-> pos.column]

\* consume_newlines_and_comments_captured: the comments collected, whether
\* a newline was seen, and the position after the run.
consume_newlines_and_comments_captured(tokens, position) ==
    LET RECURSIVE Loop(_, _, _)
        Loop(p, comments, has_newline) ==
            LET t == current_token(tokens, p)
            IN  IF t.token = "Newline" THEN Loop(p + 1, comments, TRUE)
                ELSE IF t.token = "Comment"
                THEN Loop(p + 1, Append(comments, t.c), has_newline)
                ELSE [comments |-> comments, has_newline |-> has_newline,
                      position |-> p]
    IN  Loop(position, <<>>, FALSE)

\* A separator test that asks for the comma.
CommaOnly(nl, comma) == comma

\* A separator test that asks for nothing.
AlwaysSeparated(nl, comma) == TRUE

\* has_sep after an entry: a newline was consumed, or a comma follows.
has_sep(nl, comma) == nl \/ comma

\* Pending comments that forget those read before the comma.
PendingAfterComma(before_comma, after_comma) == after_comma

\* pending_comments after an entry: the comments consumed after the value,
\* extended by those consumed after the comma.
pending_comments(before_comma, after_comma) == before_comma \o after_comma

\* The separator part of the loops of parse_object and parse_array, from the
\* position after an entry's value: the comments to hand to the next entry,
\* whether a separator was seen, and the position reached.
Separator(tokens, position) ==
    LET AfterComma(s, comma, s2) ==
            [pending_comments |-> pending_comments(s.comments, s2.comments),
             has_sep |-> has_sep(s.has_newline, comma),
             position |-> s2.position]
        AtComma(s, comma) ==
            AfterComma(s, comma,
                IF comma
                THEN consume_newlines_and_comments_captured(tokens, s.position + 1)
                ELSE [comments |-> <<>>, has_newline |-> FALSE, position |-> s.position])
        AfterValue(s) ==
            AtComma(s, current_token(tokens, s.position).token = "Comma")
    IN  AfterValue(consume_newlines_and_comments_captured(tokens, position))

RECURSIVE parse_value(_, _, _)
RECURSIVE ObjectLoop(_, _, _, _, _)
RECURSIVE ArrayLoop(_, _, _, _, _)

\* The loop of parse_object, entered at `position` with the entries read so
\* far and the comments pending for the next entry.
ObjectLoop(tokens, position, obj, pending, leading_comments) ==
    LET AfterSeparator(inserted, sep, after) ==
            IF after.token = "RightBrace"
            THEN ParsedAt(with_comments(object(inserted), leading_comments),
                        sep.position + 1)
            ELSE IF ~sep.has_sep
            THEN error_at_current(tokens, sep.position,
                     "Expected ',' or '}' in object, found " \o TokenDisplay(after))
            ELSE ObjectLoop(tokens, sep.position, inserted,
                            sep.pending_comments, leading_comments)
        AtSeparator(inserted, sep) ==
            AfterSeparator(inserted, sep, current_token(tokens, sep.position))
        AfterValue(t, v) ==
            IF v.err # "Ok" THEN v
            ELSE AtSeparator(insert(obj, t.s, v.value), Separator(tokens, v.position))
        AtKey(c, t) ==
            IF t.token = "RightBrace"
            THEN ParsedAt(with_comments(object(obj), leading_comments), c.position + 1)
            ELSE IF t.token \notin {"Identifier", "String"}
            THEN error_at_current(tokens, c.position,
                     "Expected object key (identifier or string), found "
                         \o TokenDisplay(t))
            ELSE IF current_token(tokens, c.position + 1).token # "Colon"
            THEN error_at_current(tokens, c.position + 1, "Expected ':' after object key")
            ELSE AfterValue(t, parse_value(tokens, c.position + 2, pending \o c.comments))
        AtEntry(c) == AtKey(c, current_token(tokens, c.position))
    IN  AtEntry(consume_newlines_and_comments_captured(tokens, position))

\* The loop of parse_array.
ArrayLoop(tokens, position, arr, pending, leading_comments) ==
    LET AfterSeparator(pushed, sep, after) ==
            IF after.token = "RightBracket"
            THEN ParsedAt(with_comments(array(pushed), leading_comments),
                        sep.position + 1)
            ELSE IF ~sep.has_sep
            THEN error_at_current(tokens, sep.position,
                     "Expected ',' or ']' in array, found " \o TokenDisplay(after))
            ELSE ArrayLoop(tokens, sep.position, pushed,
                           sep.pending_comments, leading_comments)
        AtSeparator(pushed, sep) ==
            AfterSeparator(pushed, sep, current_token(tokens, sep.position))
        AfterValue(v) ==
            IF v.err # "Ok" THEN v
            ELSE AtSeparator(Append(arr, v.value), Separator(tokens, v.position))
        AtItem(c) ==
            IF current_token(tokens, c.position).token = "RightBracket"
            THEN ParsedAt(with_comments(array(arr), leading_comments), c.position + 1)
            ELSE AfterValue(parse_value(tokens, c.position, pending \o c.comments))
    IN  AtItem(consume_newlines_and_comments_captured(tokens, position))

\* parse_object and parse_array are entered on their opening delimiter, which
\* expect consumes.
parse_object(tokens, position, leading_comments) ==
    IF current_token(tokens, position).token # "LeftBrace"
    THEN error_at_current(tokens, position, "Expected '{' to start object")
    ELSE ObjectLoop(tokens, position + 1, <<>>, <<>>, leading_comments)

parse_array(tokens, position, leading_comments) ==
    IF current_token(tokens, position).token # "LeftBracket"
    THEN error_at_current(tokens, position, "Expected '[' to start array")
    ELSE ArrayLoop(tokens, position + 1, <<>>, <<>>, leading_comments)

parse_value(tokens, position, leading_comments) ==
    LET At(p, comments, t) ==
            CASE t.token = "Null" -> ParsedAt(with_comments(null, comments), p + 1)
              [] t.token = "True" -> ParsedAt(with_comments(boolean(TRUE), comments), p + 1)
              [] t.token = "False" -> ParsedAt(with_comments(boolean(FALSE), comments), p + 1)
              [] t.token = "Integer" -> ParsedAt(with_comments(integer(t.i), comments), p + 1)
              [] t.token = "Float" -> ParsedAt(with_comments(float(t.f), comments), p + 1)
              [] t.token = "String" -> ParsedAt(with_comments(string(t.s), comments), p + 1)
              [] t.token = "LeftBrace" -> parse_object(tokens, p, comments)
              [] t.token = "LeftBracket" -> parse_array(tokens, p, comments)
              [] OTHER -> error_at_current(tokens, p,
                              "Expected value, found " \o TokenDisplay(t))
        AfterComments(c) ==
            At(c.position, leading_comments \o c.comments,
               current_token(tokens, c.position))
    IN  AfterComments(consume_newlines_and_comments_captured(tokens, position))

\* Parser::parse: the root value, then nothing but newlines and comments.
parse(tokens) ==
    LET AfterRest(v, rest) ==
            IF current_token(tokens, rest.position).token # "Eof"
            THEN error_at_current(tokens, rest.position, "Unexpected tokens after value")
            ELSE [err |-> "Ok", value |-> v.value]
        AfterValue(v) ==
            IF v.err # "Ok" THEN v
            ELSE AfterRest(v, consume_newlines_and_comments_captured(tokens, v.position))
        AtRoot(root) == AfterValue(parse_value(tokens, root.position, root.comments))
    IN  AtRoot(consume_newlines_and_comments_captured(tokens, 0))

\* from_str: the lexer's error or the parser's, or the value.
from_str(input) ==
    LET AfterLexer(lexed) == IF lexed.err # "Ok" THEN lexed ELSE parse(lexed.tokens)
    IN  AfterLexer(syntax_tokenize(input))

(***************************************************************************)
(* The serializer (serde/serializer.rs).  The output is the sequence of    *)
(* the characters pushed; indent_level is passed down instead of being     *)
(* incremented and decremented around a container's entries.               *)
(***************************************************************************)
\* SerializeOptions::default.
SerializeOptions ==
    [indent_size |-> 4, use_newlines |-> TRUE, trailing_commas |-> FALSE]

indent(options, indent_level) ==
    [k \in 1..(indent_level * options.indent_size) |-> " "]

\* for comment in &value.comments { prefix, "// ", comment, '\n' }
RECURSIVE CommentLines(_, _)
CommentLines(comments, prefix) ==
    IF comments = <<>> THEN <<>>
    ELSE prefix \o <<"/", "/", " ">> \o chars(Head(comments)) \o <<"\n">>
             \o CommentLines(Tail(comments), prefix)

serialize_string(s) ==
    LET RECURSIVE Escaped(_)
        Escaped(cs) ==
            IF cs = <<>> THEN <<>>
            ELSE LET ch == Head(cs)
                 IN  (CASE ch = "\n" -> <<"\\", "n">>
                        [] ch = "\t" -> <<"\\", "t">>
                        [] ch = "\r" -> <<"\\", "r">>
                        [] ch = "\\" -> <<"\\", "\\">>
                        [] ch = "\"" -> <<"\\", "\"">>
                        [] OTHER -> <<ch>>) \o Escaped(Tail(cs))
    IN  <<"\"">> \o Escaped(chars(s)) \o <<"\"">>

\* result.push_str(key): the key's characters as they are.
WriteKey(key) == chars(key)

\* What follows entry i of n: `,\n` between entries and, with
\* trailing_commas, after the last one; `\n` otherwise.
LineEnd(options, i, n) ==
    IF i < n \/ options.trailing_commas THEN <<",", "\n">> ELSE <<"\n">>

\* The same on a single line: `, ` between entries, `,` after the last one
\* with trailing_commas.
InlineEnd(options, i, n) ==
    IF i < n THEN <<",", " ">>
    ELSE IF options.trailing_commas THEN <<",">> ELSE <<>>

RECURSIVE serialize_value(_, _, _)
RECURSIVE serialize_value_kind(_, _, _)
RECURSIVE ArrayItems(_, _, _, _)
RECURSIVE ObjectEntries(_, _, _, _)

\* The items of serialize_array from item i on, one per line at
\* indent_level or all on one line.
ArrayItems(options, indent_level, arr, i) ==
    IF i > Len(arr) THEN <<>>
    ELSE IF options.use_newlines /\ Len(arr) > 1
    THEN indent(options, indent_level)
             \o serialize_value(options, indent_level, arr[i])
             \o LineEnd(options, i, Len(arr))
             \o ArrayItems(options, indent_level, arr, i + 1)
    ELSE serialize_value(options, indent_level, arr[i])
             \o InlineEnd(options, i, Len(arr))
             \o ArrayItems(options, indent_level, arr, i + 1)

serialize_array(options, indent_level, arr) ==
    IF arr = <<>> THEN <<"[", "]">>
    ELSE IF options.use_newlines /\ Len(arr) > 1
    THEN <<"[", "\n">> \o ArrayItems(options, indent_level + 1, arr, 1)
             \o indent(options, indent_level) \o <<"]">>
    ELSE <<"[">> \o ArrayItems(options, indent_level, arr, 1) \o <<"]">>

\* The entries of serialize_object from entry i on: the value's comments
\* before the key, then the key, `: ` and the value's kind.
ObjectEntries(options, indent_level, obj, i) ==
    IF i > Len(obj) THEN <<>>
    ELSE LET key == obj[i][1]
             value == obj[i][2]
         IN  IF options.use_newlines
             THEN CommentLines(value.comments, indent(options, indent_level))
                      \o indent(options, indent_level)
                      \o WriteKey(key) \o <<":", " ">>
                      \o serialize_value_kind(options, indent_level, value)
                      \o LineEnd(options, i, Len(obj))
                      \o ObjectEntries(options, indent_level, obj, i + 1)
             ELSE CommentLines(value.comments, <<>>)
                      \o WriteKey(key) \o <<":", " ">>
                      \o serialize_value_kind(options, indent_level, value)
                      \o InlineEnd(options, i, Len(obj))
                      \o ObjectEntries(options, indent_level, obj, i + 1)

serialize_object(options, indent_level, obj) ==
    IF obj = <<>> THEN <<"{", "}">>
    ELSE IF options.use_newlines
    THEN <<"{", "\n">> \o ObjectEntries(options, indent_level + 1, obj, 1)
             \o indent(options, indent_level) \o <<"}">>
    ELSE <<"{">> \o ObjectEntries(options, indent_level, obj, 1) \o <<"}">>

serialize_value_kind(options, indent_level, value) ==
    CASE value.kind = "null" -> <<"n", "u", "l", "l">>
      [] value.kind = "boolean" ->
            IF value.b THEN <<"t", "r", "u", "e">> ELSE <<"f", "a", "l", "s", "e">>
      [] value.kind = "integer" -> i64_to_string(value.i)
      [] value.kind = "float" -> f64_to_string(value.f)
      [] value.kind = "string" -> serialize_string(value.s)
      [] value.kind = "array" -> serialize_array(options, indent_level, value.items)
      [] value.kind = "object" -> serialize_object(options, indent_level, value.entries)

serialize_value(options, indent_level, value) ==
    CommentLines(value.comments, indent(options, indent_level))
        \o serialize_value_kind(options, indent_level, value)

\* to_string: a new Serializer with the default options, at indent level 0.
serialize(value) == serialize_value(SerializeOptions, 0, value)

(***************************************************************************)
(* Source texts.  A text is put together from pieces: what stands after    *)
(* the opening delimiter, the entries, what stands between two entries,    *)
(* what stands before the closing delimiter.  The comment after a piece    *)
(* spells it.                                                              *)
(***************************************************************************)
\* Keys: identifiers and quoted strings, two of them spelling the same key.
KeyTexts ==
    {
      <<"a">>,   \* a
      <<"b">>,   \* b
      <<"\"", "a", "\"">>,   \* "a"
      <<"\"", "m", "y", " ", "k", "e", "y", "\"">>,   \* "my key"
      <<"\"", "x", "-", "y", "\"">> }   \* "x-y"

\* Values of every kind, floats whole and fractional, containers with and
\* without comments inside.
ValueTexts ==
    {
      <<"1">>,   \* 1
      <<"-", "2", "0">>,   \* -20
      <<"1", ".", "0">>,   \* 1.0
      <<"2", ".", "5", "0">>,   \* 2.50
      <<"2", "e", "1">>,   \* 2e1
      <<"\"", "s", "\"">>,   \* "s"
      <<"\"", "t", "\\", "n", "\"">>,   \* "t\n"
      <<"t", "r", "u", "e">>,   \* true
      <<"n", "u", "l", "l">>,   \* null
      <<"[", "3", ",", " ", "4", "]">>,   \* [3, 4]
      <<"[", "3", " ", "4", "]">>,   \* [3 4]
      <<"[", "/", "/", " ", "c", "\n", "5", "]">>,   \* [// c<nl>5]
      <<"{", "b", ":", " ", "1", "}">>,   \* {b: 1}
      <<"{", "/", "/", " ", "c", "\n", "b", ":", " ", "1", " ", "/", "/", " ", "d", "\n", "}">> }   \* {// c<nl>b: 1 // d<nl>}

\* The values of a second entry.
SecondValueTexts ==
    {
      <<"1">>,   \* 1
      <<"1", ".", "0">>,   \* 1.0
      <<"\"", "s", "\"">> }   \* "s"

\* What stands between two entries.
Between ==
    {
      <<",">>,   \* ,
      <<"\n">>,   \* <nl>
      <<",", "\n">>,   \* ,<nl>
      <<"\n", ",">>,   \* <nl>,
      <<" ">>,   \* (a blank)
      <<>>,   \* (nothing)
      <<" ", "/", "/", " ", "c", "\n">>,   \*  // c<nl>
      <<",", " ", "/", "/", " ", "c", "\n">>,   \* , // c<nl>
      <<"/", "/", " ", "c", "\n", ",">>,   \* // c<nl>,
      <<"/", "/", " ", "c", "\n", "/", "/", " ", "d", "\n">>,   \* // c<nl>// d<nl>
      <<"\n", "\n">>,   \* <nl><nl>
      <<",", ",">>,   \* ,,
      <<"\r", "\n">>,   \* <cr><nl>
      <<" ", "/", "/", " ", "c", "\n", ",", " ", "/", "/", " ", "d", "\n">> }   \*  // c<nl>, // d<nl>

\* What stands after the opening delimiter.
Leading ==
    {
      <<>>,   \* (nothing)
      <<"\n">>,   \* <nl>
      <<"/", "/", " ", "l", "\n">>,   \* // l<nl>
      <<"\n", " ", " ", "/", "/", " ", "l", "\n", " ", " ">> }   \* <nl>  // l<nl>  

\* What stands before the closing delimiter.
Trailing ==
    {
      <<>>,   \* (nothing)
      <<",">>,   \* ,
      <<"\n">>,   \* <nl>
      <<"/", "/", " ", "t", "\n">>,   \* // t<nl>
      <<",", " ", "/", "/", " ", "t", "\n">> }   \* , // t<nl>

\* What stands before the root value.
BeforeRoot ==
    {
      <<>>,   \* (nothing)
      <<"/", "/", " ", "r", "\n", "\n">> }   \* // r<nl><nl>

\* What stands after the root value.
AfterRoot ==
    {
      <<>>,   \* (nothing)
      <<"\n", "/", "/", " ", "z">>,   \* <nl>// z
      <<" ", "7">> }   \*  7

\* The entries of the objects whose separators vary, in order: the third
\* repeats the key of the first.
ObjectEntryTexts ==
    <<
      <<"a", ":", " ", "1">>,   \* a: 1
      <<"b", ":", " ", "[", "2", "]">>,   \* b: [2]
      <<"a", ":", " ", "3">> >>   \* a: 3

\* The items of the arrays whose separators vary, in order.
ArrayItemTexts ==
    <<
      <<"1">>,   \* 1
      <<"\"", "s", "\"">>,   \* "s"
      <<"3">> >>   \* 3

\* Texts of the test suites, and texts the lexer or the parser rejects.
OtherTexts ==
    {
      <<"{", "a", ":", "1", ",", "b", ":", "2", ",", "a", ":", "3", "}">>,   \* {a:1,b:2,a:3}
      <<"[", "\n", " ", "1", ",", "\n", " ", "/", "/", " ", "c", "\n", " ", "2", ",", "\n", " ", "3", " ", "/", "/", " ", "t", "\n", "]">>,   \* [<nl> 1,<nl> // c<nl> 2,<nl> 3 // t<nl>]
      <<"{", "\n", " ", "/", "/", " ", "c", "\n", " ", "a", ":", " ", "1", "\n", " ", "/", "/", " ", "d", "\n", " ", "b", ":", " ", "2", "\n", "}">>,   \* {<nl> // c<nl> a: 1<nl> // d<nl> b: 2<nl>}
      <<"{", "a", ":", " ", "1", ",", " ", "b", ":", " ", "{", "a", ":", " ", "2", ",", " ", "/", "/", " ", "c", "\n", " ", "b", ":", " ", "3", ",", " ", "a", ":", " ", "4", "}", "}">>,   \* {a: 1, b: {a: 2, // c<nl> b: 3, a: 4}}
      <<"{", "b", ":", " ", "1", ",", " ", "a", " ", "/", "/", " ", "c", "\n", ":", " ", "2", "}">>,   \* {b: 1, a // c<nl>: 2}
      <<"{", "a", ":", " ", "/", "/", " ", "c", "\n", " ", "1", "}">>,   \* {a: // c<nl> 1}
      <<"{", "a", " ", "1", "}">>,   \* {a 1}
      <<"{", ":", " ", "1", "}">>,   \* {: 1}
      <<"{", "a", ":", " ", "}">>,   \* {a: }
      <<"{", "a", ":", " ", "1">>,   \* {a: 1
      <<"[", "1", ",", " ", "@", "]">>,   \* [1, @]
      <<"\"", "s">>,   \* "s
      <<"\"", "\\", "q", "\"">>,   \* "\q"
      <<"1", "e">>,   \* 1e
      <<"-">>,   \* -
      <<"[", "-", "]">>,   \* [-]
      <<"{", "a", ":", " ", "1", "e", "+", "}">>,   \* {a: 1e+}
      <<"a", ":", " ", "1">>,   \* a: 1
      <<"/", " ", "1">>,   \* / 1
      <<"t", "r", "u", "e", "\n", "f", "a", "l", "s", "e">>,   \* true<nl>false
      <<"[", "\t", "1", ",", "\r", "\n", " ", " ", "\"", "s", "\"", " ", "/", "/", " ", "c", "\n", "\n", "]", " ", " ">>,   \* [<tab>1,<cr><nl>  "s" // c<nl><nl>]  
      <<"{", "a", "é", "b", ":", " ", "1", "}">>,   \* {aéb: 1}
      <<"{", "n", "_", "²", ":", " ", "[", "a", "é", "b", "]", "}">>,   \* {n_²: [aéb]}
      <<"{", "é", ":", " ", "1", "}">>,   \* {é: 1}
      <<"[", "ß", "]">>,   \* [ß]
      <<"9", "2", "2", "3", "3", "7", "2", "0", "3", "6", "8", "5", "4", "7", "7", "5", "8", "0", "8">>,   \* 9223372036854775808
      <<"-", "9", "2", "2", "3", "3", "7", "2", "0", "3", "6", "8", "5", "4", "7", "7", "5", "8", "0", "9">>,   \* -9223372036854775809
      <<"[", "1", ",", " ", "9", "9", "9", "9", "9", "9", "9", "9", "9", "9", "9", "9", "9", "9", "9", "9", "9", "9", "9", "9", "]">>,   \* [1, 99999999999999999999]
      <<"1", "e", "4", "0", "0">>,   \* 1e400
      <<"-", "1", "e", "9", "9", "9">>,   \* -1e999
      <<"1", "e", "-", "4", "0", "0">>,   \* 1e-400
      <<"-", "1", "e", "-", "4", "0", "0">>,   \* -1e-400
      <<"{", "a", ":", " ", "1", ".", "5", "e", "3", "0", "9", "}">>,   \* {a: 1.5e309}
      <<"[", "0", ".", "1", "e", "-", "3", "2", "4", "]">>,   \* [0.1e-324]
      <<>> }   \* (nothing)

\* The number of entries of the containers whose separators vary.
MaxEntries == 2

\* The first n entries, with every choice among seps of what stands between
\* two of them.
RECURSIVE Joined(_, _, _)
Joined(entries, n, seps) ==
    IF n = 0 THEN {<<>>}
    ELSE IF n = 1 THEN {entries[1]}
    ELSE {body \o sep \o entries[n] :
              body \in Joined(entries, n - 1, seps), sep \in seps}

Bodies(entries) == UNION {Joined(entries, n, Between) : n \in 0..MaxEntries}

\* Containers of plain entries, the separators varying.
SeparatorTexts ==
    {<<"{">> \o lead \o body \o trail \o <<"}">> :
        lead \in Leading, body \in Bodies(ObjectEntryTexts), trail \in Trailing}
    \cup
    {<<"[">> \o lead \o body \o trail \o <<"]">> :
        lead \in Leading, body \in Bodies(ArrayItemTexts), trail \in Trailing}

\* Two entries on two lines, the keys and the values varying.
EntryTexts ==
    {<<"{">> \o k1 \o <<":", " ">> \o v1 \o <<"\n">> \o k2 \o <<":", " ">> \o v2 \o <<"}">> :
        k1 \in KeyTexts, v1 \in ValueTexts, k2 \in KeyTexts, v2 \in SecondValueTexts}
    \cup
    {<<"[">> \o v1 \o <<",", " ">> \o v2 \o <<"]">> :
        v1 \in ValueTexts, v2 \in SecondValueTexts}

\* A value alone.
RootTexts ==
    {before \o v \o after : before \in BeforeRoot, v \in ValueTexts, after \in AfterRoot}

\* The longest run of commas and newlines put around an entry.
MaxRun == 2

\* The runs of at most MaxRun separators, and two longer ones.
Runs ==
    UNION {[1..n -> {",", "\n"}] : n \in 0..MaxRun}
    \cup { <<",", "\n", ",">>, <<"\n", "\n", ",", "\n">> }

\* Containers of no, one or two entries with a run of separators after the
\* opening delimiter, between the entries and before the closing delimiter.
RunTexts ==
    UNION { {c[1] \o r1 \o c[4] : r1 \in Runs}
            \cup {c[1] \o r1 \o c[2] \o r2 \o c[4] : r1 \in Runs, r2 \in Runs}
            \cup {c[1] \o r1 \o c[2] \o r2 \o c[3] \o r3 \o c[4] :
                      r1 \in Runs, r2 \in Runs, r3 \in Runs} :
            c \in { << <<"{">>, ObjectEntryTexts[1], ObjectEntryTexts[2], <<"}">> >>,
                    << <<"[">>, ArrayItemTexts[1], ArrayItemTexts[2], <<"]">> >> } }

Texts == SeparatorTexts \cup EntryTexts \cup RootTexts \cup OtherTexts \cup RunTexts

\* The environment of the tests and of examples/env_vars.rs; the variable
\* COSY_TEST_VAR_MISSING_XYZ and VAR are not set.
TestEnvironment ==
    [name \in {"COSY_TEST_VAR_STRING", "COSY_TEST_VAR_INT", "COSY_TEST_VAR_BOOL",
               "COSY_TEST_VAR_FLOAT", "COSY_TEST_VAR_FALLBACK",
               "HOST", "PORT", "API_KEY", "DEBUG"} |->
        CASE name = "COSY_TEST_VAR_STRING" -> "interpolated"
          [] name = "COSY_TEST_VAR_INT" -> "42"
          [] name = "COSY_TEST_VAR_BOOL" -> "true"
          [] name = "COSY_TEST_VAR_FLOAT" -> "3.14159"
          [] name = "COSY_TEST_VAR_FALLBACK" -> "not_a_number"
          [] name = "HOST" -> "127.0.0.1"
          [] name = "PORT" -> "9090"
          [] name = "API_KEY" -> "secret_12345"
          [] name = "DEBUG" -> "true"]

Environments == {NoEnvironment, TestEnvironment}

\* The texts of the tests that refer to environment variables, the text of
\* the example, and references in an array, after an escaped dollar sign
\* and beside a dollar sign that begins none.
EnvTexts ==
    { chars("{ key: \"Value is ${COSY_TEST_VAR_STRING}\" }"),
      chars("{ port: ${COSY_TEST_VAR_INT} }"),
      chars("{ flag: ${COSY_TEST_VAR_BOOL} }"),
      chars("{ pi: ${COSY_TEST_VAR_FLOAT} }"),
      chars("{ val: ${COSY_TEST_VAR_FALLBACK} }"),
      chars("{ val: ${COSY_TEST_VAR_MISSING_XYZ} }"),
      chars("{ val: \"\\${VAR}\" }"),
      chars("{ val: \"Price: \\$${COSY_TEST_VAR_INT}\" }"),
      chars("{\n        // String interpolation\n        host: \"${HOST}\"\n        \n"
            \o "        // Standalone interpolation (type inference)\n"
            \o "        port: ${PORT}\n        debug_mode: ${DEBUG}\n        \n"
            \o "        // Mixed string\n        api_key: \"key-${API_KEY}\"\n    }"),
      chars("[${COSY_TEST_VAR_INT}, \"a$b\", // c\n ${DEBUG}]"),
      chars("{ z: ${PORT}, a: \"${HOST}\", z: ${DEBUG} }") }

(***************************************************************************)
(* A text is parsed, the value is serialized, the output is parsed again   *)
(* and that value serialized again.  ret holds what the first from_str    *)
(* returned, composed the first output, tree what the second from_str      *)
(* returned and reads the second output.                                   *)
(***************************************************************************)
InitSyntax ==
    /\ pc = "text"
    /\ \/ args \in [input : Texts] /\ env = NoEnvironment
       \/ args \in [input : EnvTexts] /\ env \in Environments
    /\ files = None
    /\ tree = None
    /\ ret = None
    /\ reads = <<>>
    /\ stack = <<>>
    /\ composed = None

CallFromStr ==
    /\ pc = "text"
    /\ ret' = from_str(args.input)
    /\ pc' = "parsed"
    /\ UNCHANGED <<args, files, env, tree, reads, stack, composed>>

CallToString ==
    /\ pc = "parsed"
    /\ ret.err = "Ok"
    /\ composed' = serialize(ret.value)
    /\ pc' = "serialized"
    /\ UNCHANGED <<args, files, env, tree, ret, reads, stack>>

CallFromStrAgain ==
    /\ pc = "serialized"
    /\ tree' = from_str(composed)
    /\ pc' = "reparsed"
    /\ UNCHANGED <<args, files, env, ret, reads, stack, composed>>

CallToStringAgain ==
    /\ pc = "reparsed"
    /\ tree.err = "Ok"
    /\ reads' = serialize(tree.value)
    /\ pc' = "reserialized"
    /\ UNCHANGED <<args, files, env, tree, ret, stack, composed>>

NextSyntax == CallFromStr \/ CallToString \/ CallFromStrAgain \/ CallToStringAgain

SpecSyntax == InitSyntax /\ [][NextSyntax]_vars

(***************************************************************************)
(* The round trip through the serializer.                                  *)
(***************************************************************************)
RoundTripped == pc \in {"reparsed", "reserialized"}

\* C12: for every value v the parser produces, parsing the serializer's
\* output for v succeeds and yields a value equal to v, comments included.
C12_RoundTrip ==
    RoundTripped => tree.err = "Ok" /\ tree.value = ret.value

\* C13: for every value v the parser produces, the serializer's output for
\* v parses, and serializing the parsed value gives that output again.
C13_Idempotent ==
    /\ RoundTripped => tree.err = "Ok"
    /\ pc = "reserialized" => reads = composed

(***************************************************************************)
(* What a text says, read off its tokens without the parser.               *)
(***************************************************************************)
Parses == pc = "parsed" /\ ret.err = "Ok"

\* The entries of the container opened at token position p, in source
\* order: for each, its key (objects), the position of the first token of
\* its value, and the texts of the Comment tokens that stand in the
\* container itself between the previous entry and this value.  A key is a
\* token followed by a colon.
Children(tokens, p) ==
    LET RECURSIVE Scan(_, _, _, _, _)
        Scan(i, depth, comments, key, acc) ==
            LET t == tokens[i + 1].token
                opens == t.token \in {"LeftBrace", "LeftBracket"}
                closes == t.token \in {"RightBrace", "RightBracket"}
            IN  IF t.token = "Eof" \/ (depth = 1 /\ closes) THEN acc
                ELSE IF depth > 1
                THEN Scan(i + 1, IF opens THEN depth + 1
                                 ELSE IF closes THEN depth - 1 ELSE depth,
                          comments, key, acc)
                ELSE IF t.token = "Comment"
                THEN Scan(i + 1, depth, Append(comments, t.c), key, acc)
                ELSE IF t.token \in {"Newline", "Comma", "Colon"}
                THEN Scan(i + 1, depth, comments, key, acc)
                ELSE IF /\ tokens[p + 1].token.token = "LeftBrace"
                        /\ key = None
                        /\ tokens[i + 2].token.token = "Colon"
                THEN Scan(i + 1, depth, comments, Some(t.s), acc)
                ELSE Scan(i + 1, IF opens THEN depth + 1 ELSE depth, <<>>, None,
                          Append(acc, [key |-> key, pos |-> i, comments |-> comments]))
    IN  Scan(p + 1, 1, <<>>, None, <<>>)

\* The position of the root value's first token.
RECURSIVE RootPosition(_, _)
RootPosition(tokens, p) ==
    IF tokens[p + 1].token.token \in {"Newline", "Comment"}
    THEN RootPosition(tokens, p + 1) ELSE p

\* The keys of ks without repetition, each where it occurs first.
RECURSIVE FirstOccurrences(_)
FirstOccurrences(ks) ==
    IF ks = <<>> THEN <<>>
    ELSE LET front == FirstOccurrences(SubSeq(ks, 1, Len(ks) - 1))
             k == ks[Len(ks)]
         IN  IF \E j \in 1..Len(front) : front[j] = k THEN front ELSE Append(front, k)

\* The value v is what the tokens from position p on spell: a scalar is the
\* token's, an array has the entries in order, an object has one entry for
\* each key, the keys in the order of their first occurrences and each value
\* spelled by the key's last occurrence.
RECURSIVE Spells(_, _, _)
Spells(v, tokens, p) ==
    LET t == tokens[p + 1].token
        ch == Children(tokens, p)
        ks == [j \in 1..Len(ch) |-> ch[j].key.some]
    IN  CASE t.token = "LeftBrace" ->
                /\ v.kind = "object"
                /\ Keys(v.entries) = FirstOccurrences(ks)
                /\ \A j \in 1..Len(v.entries) :
                      LET last == CHOOSE n \in 1..Len(ks) :
                                      /\ ks[n] = v.entries[j][1]
                                      /\ \A n2 \in (n + 1)..Len(ks) : ks[n2] # ks[n]
                      IN  Spells(v.entries[j][2], tokens, ch[last].pos)
          [] t.token = "LeftBracket" ->
                /\ v.kind = "array"
                /\ Len(v.items) = Len(ch)
                /\ \A j \in 1..Len(ch) : Spells(v.items[j], tokens, ch[j].pos)
          [] t.token = "Integer" -> v.kind = "integer" /\ v.i = t.i
          [] t.token = "Float" -> v.kind = "float" /\ v.f = t.f
          [] t.token = "String" -> v.kind = "string" /\ v.s = t.s
          [] t.token = "True" -> v.kind = "boolean" /\ v.b
          [] t.token = "False" -> v.kind = "boolean" /\ ~v.b
          [] t.token = "Null" -> v.kind = "null"
          [] OTHER -> FALSE

\* C14: a parsed object has its keys in the order of their first
\* occurrences in the source, one entry for each key, and a repeated key has
\* the value of its last occurrence; so for every object of the text, at
\* any depth.
C14_KeyOrder ==
    Parses =>
        LET tokens == syntax_tokenize(args.input).tokens
        IN  Spells(ret.value, tokens, RootPosition(tokens, 0))

\* The example: {a:1,b:2,a:3} gives the order a, b with a = 3.
C14_Witness ==
    /\ Parses
    /\ args.input = <<"{", "a", ":", "1", ",", "b", ":", "2", ",", "a", ":", "3", "}">>
    /\ ret.value = object(<< <<"a", integer(3)>>, <<"b", integer(2)>> >>)

(***************************************************************************)
(* The separator rule, stated over the pieces a text is made of.           *)
(***************************************************************************)
Occurrences(piece, ch) == Cardinality({i \in 1..Len(piece) : piece[i] = ch})

\* The pieces that separate by the rule: one comma, at least one newline, or
\* both in either order.
Separating ==
    {s \in Between : /\ Occurrences(s, ",") <= 1
                     /\ Occurrences(s, ",") = 1 \/ Occurrences(s, "\n") >= 1}

\* The pieces with neither a comma nor a newline.
NotSeparating ==
    {s \in Between : Occurrences(s, ",") = 0 /\ Occurrences(s, "\n") = 0}

Containers ==
    { [open |-> <<"{">>, close |-> <<"}">>, entries |-> ObjectEntryTexts],
      [open |-> <<"[">>, close |-> <<"]">>, entries |-> ArrayItemTexts] }

\* The containers of one entry or more whose entries are all separated by
\* the rule, before the closing delimiter anything of Trailing, a trailing
\* comma included.
WellSeparated ==
    UNION {{c.open \o lead \o body \o trail \o c.close :
                lead \in Leading, trail \in Trailing,
                body \in UNION {Joined(c.entries, n, Separating) : n \in 1..MaxEntries}} :
           c \in Containers}

\* The beginnings of a container up to an entry that follows the previous
\* one with neither a comma nor a newline: the text before that entry, and
\* the entry.
Unseparated ==
    UNION {{[before |-> c[1].open \o lead \o body \o s,
             entry |-> c[1].entries[c[2] + 1]] :
                lead \in Leading, s \in NotSeparating,
                body \in Joined(c[1].entries, c[2], Separating)} :
           c \in Containers \X (1..(MaxEntries - 1))}

IsPrefix(p, s) == Len(p) <= Len(s) /\ SubSeq(s, 1, Len(p)) = p

\* The line and column of the character that follows the text before: one
\* line for each newline, one column for each character after the last one.
PositionAfter(before) ==
    LET newlines == {i \in 1..Len(before) : before[i] = "\n"}
        last == IF newlines = {} THEN 0
                ELSE CHOOSE i \in newlines : \A j \in newlines : j <= i
    IN  [line |-> Cardinality(newlines) + 1, column |-> Len(before) - last + 1]

\* C15: in objects and arrays alike, entries separated by a comma, by
\* newlines or by both in either order are accepted, a trailing comma
\* included; an entry that follows the previous one with neither is
\* rejected with a ParseError at the position of that entry's first token.
C15_Separators ==
    pc = "parsed" =>
        /\ args.input \in WellSeparated => ret.err = "Ok"
        /\ \A u \in Unseparated :
              IsPrefix(u.before \o u.entry, args.input) =>
                  /\ ret.err = "ParseError"
                  /\ ret.line = PositionAfter(u.before).line
                  /\ ret.column = PositionAfter(u.before).column

\* Two array items separated by a newline and then a comma, after a comment
\* line, with a trailing comma: accepted.
C15_Witness ==
    /\ pc = "parsed"
    /\ args.input = <<"[", "/", "/", " ", "l", "\n", "1", "\n", ",", "\"", "s", "\"", ",", "]">>
    /\ args.input \in WellSeparated
    /\ ret.err = "Ok"
    /\ ret.value.items = <<with_comments(integer(1), <<"l">>), string("s")>>

\* Two object entries on the second line with a blank between them: rejected
\* at the second entry's key.
C15_WitnessRejected ==
    /\ pc = "parsed"
    /\ args.input = <<"{", "\n", "a", ":", " ", "1", " ", "b", ":", " ", "[", "2", "]", "}">>
    /\ \E u \in Unseparated : IsPrefix(u.before \o u.entry, args.input)
    /\ ret = [err |-> "ParseError",
              message |-> "Expected ',' or '}' in object, found identifier 'b'",
              line |-> 2, column |-> 6]

\* The texts of the Comment tokens before token position p.
CommentsBefore(tokens, p) ==
    LET at == SelectSeq([i \in 1..p |-> tokens[i].token],
                        LAMBDA t : t.token = "Comment")
    IN  [i \in 1..Len(at) |-> at[i].c]

\* The value v, spelled from token position p on, carries exactly the
\* comments given, and each entry of it carries exactly the comments that
\* stand in v itself between the previous entry and the entry's value (for
\* a repeated key, those of the occurrence that gives the value).
RECURSIVE Carries(_, _, _, _)
Carries(v, tokens, p, comments) ==
    LET ch == Children(tokens, p)
    IN  /\ v.comments = comments
        /\ v.kind = "array" =>
              \A j \in 1..Len(v.items) :
                  Carries(v.items[j], tokens, ch[j].pos, ch[j].comments)
        /\ v.kind = "object" =>
              \A j \in 1..Len(v.entries) :
                  LET last == CHOOSE n \in 1..Len(ch) :
                                  /\ ch[n].key = Some(v.entries[j][1])
                                  /\ \A n2 \in (n + 1)..Len(ch) : ch[n2].key # ch[n].key
                  IN  Carries(v.entries[j][2], tokens, ch[last].pos, ch[last].comments)

\* C16: inside a container the comments are attached, in source order, to
\* the value of the next entry of the same container, also when they stand
\* before the entry's key; the comments before the root value are the
\* root's; the comments before a closing delimiter and those after the root
\* value are on no value, and no comment is on two values: every value
\* carries exactly the comments of its own stretch of the text.
C16_CommentAttachment ==
    Parses =>
        LET tokens == syntax_tokenize(args.input).tokens
            root == RootPosition(tokens, 0)
        IN  Carries(ret.value, tokens, root, CommentsBefore(tokens, root))

\* The test's array: the comment line before 2 is on 2, the comment after 3
\* is on nothing.
C16_Witness ==
    /\ Parses
    /\ args.input = << "[", "\n", " ", "1", ",", "\n", " ", "/", "/", " ", "c", "\n",
                       " ", "2", ",", "\n", " ", "3", " ", "/", "/", " ", "t", "\n", "]" >>
    /\ ret.value = array(<< integer(1), with_comments(integer(2), <<"c">>), integer(3) >>)

\* Comments before and after the comma both go to the next entry's value, a
\* container here, and not into it; those before the closing brace and
\* after the root are dropped.
C16_WitnessObject ==
    /\ Parses
    /\ args.input = << "{", "/", "/", " ", "l", "\n", "a", ":", " ", "1", " ",
                       "/", "/", " ", "c", "\n", ",", " ", "/", "/", " ", "d", "\n",
                       "b", ":", " ", "[", "2", "]", "/", "/", " ", "t", "\n", "}" >>
    /\ ret.value = object(<<
           <<"a", with_comments(integer(1), <<"l">>)>>,
           <<"b", with_comments(array(<<integer(2)>>), <<"c", "d">>)>> >>)

(***************************************************************************)
(* The order of the steps inside one Object node, the depth and the base   *)
(* directory of a run of resolve, read off the call stack: the frames of   *)
(* load_and_resolve below a frame are the file hops that led to its node.  *)
(***************************************************************************)
\* What a traversal of v, a document of directory dir, comes to first:
\* nothing, the read of a file, or a directive whose value is no string.
\* The fields of an Object come before its `extends`, and that before its
\* `include`.
RECURSIVE FirstEvent(_, _)
FirstEvent(v, dir) ==
    LET nothing == [event |-> "none"]
        first(evs) ==
            LET hits == {i \in 1..Len(evs) : evs[i] # nothing}
            IN  IF hits = {} THEN nothing
                ELSE evs[CHOOSE i \in hits : \A h \in hits : i <= h]
        own(map, key, label) ==
            IF get(map, key).kind = "string"
            THEN [event |-> "read", path |-> join(dir, get(map, key).s),
                  opened |-> Locate(files, dir, get(map, key).s)]
            ELSE [event |-> "invalid",
                  msg |-> <<label, type_name(get(map, key))>>]
    IN  IF v.kind = "object"
        THEN LET fields == SelectSeq(v.entries, LAMBDA e : e[1] \notin DirectiveKeys)
                 nested == first([i \in 1..Len(fields) |-> FirstEvent(fields[i][2], dir)])
             IN  IF nested # nothing THEN nested
                 ELSE IF contains_key(v.entries, "extends")
                 THEN own(v.entries, "extends", "Extends value must be a string, found ")
                 ELSE IF contains_key(v.entries, "include")
                 THEN own(v.entries, "include", "Include value must be a string, found ")
                 ELSE nothing
        ELSE IF v.kind = "array"
        THEN first([i \in 1..Len(v.items) |-> FirstEvent(v.items[i], dir)])
        ELSE nothing

\* C18: in every Object node being resolved, the remaining fields hold no
\* directive any more once the node is at its `extends` (and nothing of its
\* own has been loaded while it is at its fields), the `extends` file is
\* loaded and resolved once the node is at its `include`, and the first
\* thing a run comes to is what its nested local fields call for, before
\* the node's own directives: when that fails, its error is the one
\* returned.
C18_Ordering ==
    /\ pc = "running" =>
          \A j \in 1..Len(stack) :
              (stack[j].fn = "resolve_recursive" /\ stack[j].value.kind = "object") =>
                  /\ stack[j].at = "fields" =>
                        /\ stack[j].loaded_base = None
                        /\ stack[j].mixin_config = None
                        /\ \A i \in 1..Len(stack[j].value.entries) :
                              i < stack[j].i =>
                                  ~HasDirectiveKey(stack[j].value.entries[i][2])
                  /\ stack[j].at \in {"extends", "include", "merge"} =>
                        \A i \in 1..Len(stack[j].value.entries) :
                            ~HasDirectiveKey(stack[j].value.entries[i][2])
                  /\ stack[j].at = "extends" => stack[j].mixin_config = None
                  /\ (stack[j].at \in {"include", "merge"}
                          /\ stack[j].extends_val # None) =>
                        /\ stack[j].loaded_base # None
                        /\ ~HasDirectiveKey(stack[j].loaded_base)
    /\ pc = "done" =>
          LET ev == FirstEvent(args.value, args.base_path)
          IN  CASE ev.event = "none" -> reads = <<>> /\ ret.err = "Ok"
                [] ev.event = "invalid" ->
                       /\ reads = <<>>
                       /\ ret.err = "InvalidIncludeTarget" /\ ret.msg = ev.msg
                [] ev.event = "read" ->
                       /\ reads # <<>> /\ reads[1] = ev.path
                       /\ ev.opened = None =>
                             reads = <<ev.path>> /\ ret.err = "IoError"
                       /\ (ev.opened # None
                               /\ files[ev.opened.some].state = "unparsable") =>
                             reads = <<ev.path>> /\ ret.err = "ParseError"

\* The root has a nested include and an `extends` of its own: the nested
\* file was read first, then the root's, and both are in the result.
C18_Witness ==
    /\ pc = "done" /\ ret.err = "Ok"
    /\ args.value = object(<< <<"extends", string("f1")>>,
                              <<"x", object(<< <<"include", string("f3")>> >>)>>,
                              <<"S", object(<< <<"p", integer(2)>> >>)>> >>)
    /\ files[<<"cfg", "f1">>] = Document(object(<< <<"A", integer(1)>>, <<"B", integer(1)>> >>))
    /\ files[<<"cfg", "f3">>] = Document(object(<< <<"B", integer(2)>>, <<"C", integer(2)>> >>))
    /\ reads = << <<"cfg", "f3">>, <<"cfg", "f1">> >>
    /\ tree = object(<< <<"A", integer(1)>>, <<"B", integer(1)>>,
                        <<"x", object(<< <<"B", integer(2)>>, <<"C", integer(2)>> >>)>>,
                        <<"S", object(<< <<"p", integer(2)>> >>)>> >>)

\* The nested include names a missing file and the node's own `extends` is
\* no string: the nested failure is the error returned.
C18_WitnessNestedFailure ==
    /\ pc = "done" /\ ret.err = "IoError"
    /\ args.value = object(<< <<"extends", integer(5)>>,
                              <<"x", object(<< <<"include", string("f1")>> >>)>> >>)
    /\ <<"cfg", "f1">> \notin DOMAIN files

\* A node at its `include` whose `extends` file, itself holding directives,
\* has been loaded and resolved.
C18_WitnessExtendsFirst ==
    /\ pc = "running"
    /\ \E j \in 1..Len(stack) :
          /\ stack[j].fn = "resolve_recursive" /\ stack[j].at = "include"
          /\ stack[j].include_val # None
          /\ stack[j].loaded_base # None
          /\ j < Len(stack)
          /\ Len(reads) >= 2

(***************************************************************************)
(* The depth.                                                              *)
(***************************************************************************)
\* The number of file hops that led to frame j of the stack.
Hops(j) == Cardinality({i \in 1..(j - 1) : stack[i].fn = "load_and_resolve"})

\* C19: the depth of every activation is the number of file hops on the
\* way to its node, whatever the nesting inside the documents, and a root
\* whose sibling sub-objects each head a chain of at most MAX_DEPTH hops
\* resolves, every chain read to its end.
C19_DepthIsFileHops ==
    /\ pc = "running" => \A j \in 1..Len(stack) : stack[j].depth = Hops(j)
    /\ pc = "done" =>
          \A n \in 1..MAX_DEPTH, m \in 1..MaxSiblings :
              \A kinds \in ChainKinds(n) :
                  (files = ChainFiles(n, kinds) /\ args.value = SiblingsDoc(m, kinds)) =>
                      ret.err = "Ok" /\ Len(reads) = m * n

\* Three siblings, the third two levels down, each heading a chain of ten
\* hops: all thirty files were read.
C19_Witness ==
    /\ pc = "done" /\ ret.err = "Ok"
    /\ \E kinds \in ChainKinds(MAX_DEPTH) :
          files = ChainFiles(MAX_DEPTH, kinds) /\ args.value = SiblingsDoc(3, kinds)
    /\ Len(reads) = 3 * MAX_DEPTH

\* An activation at depth MAX_DEPTH with more frames below it than the hops
\* alone put on the stack.
C19_WitnessNested ==
    /\ pc = "running"
    /\ Top.fn = "resolve_recursive" /\ Top.depth = MAX_DEPTH
    /\ Len(stack) > 2 * MAX_DEPTH + 2

(***************************************************************************)
(* The base directory.                                                     *)
(***************************************************************************)
\* The directory of the document that holds the node of frame j: that of
\* the file loaded last on the way to it, or the caller's.
ContainingDir(j) ==
    LET hops == {i \in 1..(j - 1) : stack[i].fn = "load_and_resolve"}
    IN  IF hops = {} THEN args.base_path
        ELSE LET last == stack[CHOOSE i \in hops : \A h \in hops : h <= i].include_path
             IN  SubSeq(last, 1, Len(last) - 1)

\* What the string directives of document v name, each with the directory
\* dir it is to be joined to.
Named(v, dir) ==
    {[base_path |-> dir, path_str |-> e[2].s] :
        e \in {d \in DirectiveEntries(v) : d[2].kind = "string"}}

\* The path a directive names, without its last component.
DirOf(r) ==
    SubSeq(join(r.base_path, r.path_str), 1, Len(join(r.base_path, r.path_str)) - 1)

\* What the run is called to read: what the caller's tree names in the
\* caller's directory, and what a file so named names in its own.
RECURSIVE NamedFrom(_)
NamedFrom(S) ==
    LET T == S \cup UNION {Named(files[Locate(files, r.base_path, r.path_str).some].doc,
                                 DirOf(r)) :
                              r \in {n \in S : Parsed(Locate(files, n.base_path, n.path_str))}}
    IN  IF T = S THEN S ELSE NamedFrom(T)

\* The paths the run is called to read.
CalledFor ==
    {join(r.base_path, r.path_str) : r \in NamedFrom(Named(args.value, args.base_path))}

\* C20: every node is resolved with the directory of the document that holds
\* it, and every directive path is joined to that directory; the files read
\* are those the caller's tree names in the caller's directory and those a
\* loaded file names in its own, wherever its content was merged into.
C20_BaseDirectory ==
    /\ pc = "running" =>
          \A j \in 1..Len(stack) :
              /\ stack[j].base_path = ContainingDir(j)
              /\ stack[j].fn = "load_and_resolve" =>
                    stack[j].include_path =
                        join(ContainingDir(j), stack[j].path_str)
    /\ pc = "done" =>
          /\ \A i \in 1..Len(reads) : reads[i] \in CalledFor
          /\ ret.err = "Ok" => CalledFor = {reads[i] : i \in 1..Len(reads)}

\* The root extends a file of cfg/sub, whose own include is read from
\* cfg/sub, and then includes f2, read from cfg.
C20_Witness ==
    /\ pc = "done" /\ ret.err = "Ok"
    /\ args.value = object(<< <<"extends", string("sub/f1")>>,
                              <<"include", string("f2")>> >>)
    /\ files[<<"cfg", "f2">>] = Document(object(<< <<"B", integer(2)>>, <<"C", integer(2)>> >>))
    /\ reads = << <<"cfg", "sub", "f1">>, <<"cfg", "sub", "f2">>, <<"cfg", "f2">> >>
    /\ tree = object(<< <<"Z", integer(1)>>, <<"Q", integer(1)>>,
                        <<"B", integer(2)>>, <<"C", integer(2)>> >>)

\* The include is written with a separator after the name of a file that
\* exists: the read fails, and the node is left with its local field.
C20_WitnessSeparator ==
    /\ pc = "done" /\ ret.err = "IoError"
    /\ args.value = object(<< <<"include", string("f1/")>>, <<"L", integer(1)>> >>)
    /\ files[<<"cfg", "f1">>] = Document(object(<< <<"A", integer(1)>>, <<"B", integer(1)>> >>))
    /\ reads = << <<"cfg", "f1">> >>
    /\ tree = object(<< <<"L", integer(1)>> >>)

\* The `extends` goes through an empty directory and back, the `include`
\* through cfg/sub and back: both files of cfg are read.
C20_WitnessThroughDirectories ==
    /\ pc = "done" /\ ret.err = "Ok"
    /\ args.value = object(<< <<"extends", string("empty/../f1")>>,
                              <<"include", string("./sub/.././f2")>> >>)
    /\ files[<<"cfg", "empty">>] = Directory
    /\ files[<<"cfg", "f1">>] = Document(object(<< <<"A", integer(1)>>, <<"B", integer(1)>> >>))
    /\ reads = << <<"cfg", "empty", "..", "f1">>, <<"cfg", "sub", "..", "f2">> >>
    /\ tree = object(<< <<"A", integer(1)>>, <<"B", integer(1)>> >>)

\* The include leaves the directory relative paths start from: the file
\* beside it is read, and its own `extends` is read from its directory.
C20_WitnessAbove ==
    /\ pc = "done" /\ ret.err = "Ok"
    /\ args.value = object(<< <<"include", string("../../out/g")>>, <<"L", integer(1)>> >>)
    /\ reads = << <<"cfg", "..", "..", "out", "g">>, <<"cfg", "..", "..", "out", "h">> >>
    /\ tree = object(<< <<"H", integer(1)>>, <<"G", integer(1)>>, <<"L", integer(1)>> >>)

\* A file that names itself with a separator after its name: the second
\* read fails, there is no cycle.
C20_WitnessSelfSeparator ==
    /\ pc = "done" /\ ret.err = "IoError"
    /\ args.value = object(<< <<"include", string("sub/self")>>, <<"L", integer(1)>> >>)
    /\ reads = << <<"cfg", "sub", "self">>, <<"cfg", "sub", "self">> >>
    /\ tree = object(<< <<"L", integer(1)>> >>)

\* The `extends` names a directory: the read fails.
C20_WitnessDirectory ==
    /\ pc = "done" /\ ret.err = "IoError"
    /\ args.value = object(<< <<"extends", string("empty")>>, <<"L", integer(1)>> >>)
    /\ files[<<"cfg", "empty">>] = Directory
    /\ reads = << <<"cfg", "empty">> >>

(***************************************************************************)
(* The grammar of containers, as a recognizer over the tokens of a text    *)
(* without its Comment tokens.  A run is a maximal stretch of Comma and    *)
(* Newline tokens.                                                         *)
(***************************************************************************)
\* The tokens of the text, the comments left out.
GrammarTokens ==
    LET lexed == syntax_tokenize(args.input)
        kept == SelectSeq(lexed.tokens, LAMBDA t : t.token.token # "Comment")
    IN  [i \in 1..Len(kept) |-> kept[i].token]

\* The run that starts at position p: where it ends, its length and the
\* number of its commas.
RECURSIVE SeparatorRun(_, _, _, _)
SeparatorRun(ts, p, len, commas) ==
    IF p <= Len(ts) /\ ts[p].token \in {"Comma", "Newline"}
    THEN SeparatorRun(ts, p + 1, len + 1,
                      IF ts[p].token = "Comma" THEN commas + 1 ELSE commas)
    ELSE [end |-> p, len |-> len, commas |-> commas]

\* The position after the value that starts at p, newlines before it
\* skipped, or 0 when none does.
\* With one_comma, a run holds at most one comma, the run after the
\* opening delimiter holds none, and the run between two entries is not
\* empty; without it every run is allowed everywhere.
RECURSIVE DerivesValue(_, _, _)
RECURSIVE DerivesEntries(_, _, _, _, _)
DerivesValue(ts, p, one_comma) ==
    IF p > Len(ts) THEN 0
    ELSE IF ts[p].token = "Newline" THEN DerivesValue(ts, p + 1, one_comma)
    ELSE IF ts[p].token \in {"Null", "True", "False", "Integer", "Float", "String"}
    THEN p + 1
    ELSE IF ts[p].token = "LeftBrace" THEN DerivesEntries(ts, p + 1, one_comma, "RightBrace", TRUE)
    ELSE IF ts[p].token = "LeftBracket" THEN DerivesEntries(ts, p + 1, one_comma, "RightBracket", TRUE)
    ELSE 0

DerivesEntries(ts, p, one_comma, close, first) ==
    LET After(v) ==
            IF v = 0 THEN 0 ELSE DerivesEntries(ts, v, one_comma, close, FALSE)
        EntryAt(q) ==
            IF close = "RightBracket" THEN DerivesValue(ts, q, one_comma)
            ELSE IF /\ q + 1 <= Len(ts)
                    /\ ts[q].token \in {"Identifier", "String"}
                    /\ ts[q + 1].token = "Colon"
            THEN DerivesValue(ts, q + 2, one_comma)
            ELSE 0
        At(r) ==
            IF one_comma /\ r.commas > (IF first THEN 0 ELSE 1) THEN 0
            ELSE IF r.end <= Len(ts) /\ ts[r.end].token = close THEN r.end + 1
            ELSE IF one_comma /\ ~first /\ r.len = 0 THEN 0
            ELSE After(EntryAt(r.end))
    IN  At(SeparatorRun(ts, p, 0, 0))

\* The text is a value between newlines.
Derives(ts, one_comma) ==
    LET RECURSIVE Newlines(_)
        Newlines(p) ==
            IF p <= Len(ts) /\ ts[p].token = "Newline" THEN Newlines(p + 1) ELSE p
        After(v) == v # 0 /\ Newlines(v) = Len(ts) /\ ts[Len(ts)].token = "Eof"
    IN  After(DerivesValue(ts, 1, one_comma))

Lexes == pc = "parsed" /\ ret.err # "LexError"

\* C21 as claimed: the parser accepts exactly the texts whose containers
\* have any run of separators, the empty one too, before, between and
\* after their entries.
C21_GrammarAnyRun ==
    Lexes => (ret.err = "Ok" <=> Derives(GrammarTokens, FALSE))

\* C21: the parser accepts exactly the texts in whose containers the run
\* before the first entry holds newlines only, the run between two entries
\* holds a newline or a comma and no second comma, and the run after the
\* last entry holds at most one comma; newlines may stand before any value.
C21_Grammar ==
    Lexes => (ret.err = "Ok" <=> Derives(GrammarTokens, TRUE))

\* Two items with two newlines, a comma and a newline between them and a
\* comma and a newline after them.
C21_Witness ==
    /\ Parses
    /\ args.input = <<"[", "\n", "1", "\n", "\n", ",", "\n", "\"", "s", "\"", ",", "\n", "]">>
    /\ Len(ret.value.items) = 2

\* Two commas in a row, and a comma after the opening delimiter: rejected
\* at the comma where an entry should start.
C21_WitnessRejected ==
    /\ pc = "parsed"
    /\ \/ /\ args.input = <<"[", "1", ",", ",", "\"", "s", "\"", "]">>
          /\ ret = [err |-> "ParseError", message |-> "Expected value, found ,",
                    line |-> 1, column |-> 4]
       \/ /\ args.input = <<"{", ",", "a", ":", " ", "1", "}">>
          /\ ret = [err |-> "ParseError",
                    message |-> "Expected object key (identifier or string), found ,",
                    line |-> 1, column |-> 2]

(***************************************************************************)
(* The positions of the tokens.                                            *)
(***************************************************************************)
\* For each token of the input, the number of characters before its first
\* one; for Eof, the number of characters before the end of the input once
\* the blanks are skipped.  With keep, a comment is a token; without, it
\* is skipped with the blanks.
TokenStarts(input, keep) ==
    LET RECURSIVE Loop(_, _)
        Loop(lx, starts) ==
            LET After(l1, t) ==
                    IF t.err # "Ok" THEN starts
                    ELSE Loop(t.lx, Append(starts, l1.position))
                At(l1) ==
                    IF is_at_end(input, l1) THEN Append(starts, l1.position)
                    ELSE After(l1, IF keep THEN syntax_next_token(input, l1)
                                   ELSE next_token(input, l1))
            IN  At(IF keep THEN syntax_skip_whitespace(input, lx)
                   ELSE skip_whitespace_and_comments(input, lx))
    IN  Loop([position |-> 0, line |-> 1, column |-> 1], <<>>)

\* The positions of the token list lexed are those counted in the text: one
\* line for each newline before the token's first character, one column for
\* each character since the last of them.
PositionsCounted(input, lexed, starts) ==
    /\ Len(starts) = Len(lexed.tokens)
    /\ \A i \in 1..Len(starts) :
          /\ lexed.tokens[i].pos = PositionAfter(SubSeq(input, 1, starts[i]))
          /\ i < Len(starts) =>
                /\ starts[i] < starts[i + 1]
                /\ input[starts[i] + 1] \notin {" ", "\t", "\r"}
                /\ lexed.tokens[i].token.token = "Newline"
                       <=> input[starts[i] + 1] = "\n"
    /\ lexed.tokens[Len(starts)].token.token = "Eof"
    /\ starts[Len(starts)] = Len(input)

\* C25: the position of every token is that of its first character, counted
\* in the text: one line for each newline before it, one column for each
\* character since the last of them.  So a Newline is on the line it ends,
\* and Eof is just past the last character.  This holds of the lexer that
\* skips comments and of the lexer that keeps them as tokens.
C25_TokenPositions ==
    pc = "parsed" =>
        /\ tokenize(args.input).err = "Ok" =>
               PositionsCounted(args.input, tokenize(args.input),
                                TokenStarts(args.input, FALSE))
        /\ Lexes =>
               /\ syntax_tokenize(args.input).err = "Ok"
               /\ PositionsCounted(args.input, syntax_tokenize(args.input),
                                   TokenStarts(args.input, TRUE))

\* The text of test_position_tracking: true at 1:1, the newline at 1:5,
\* false at 2:1 and Eof at 2:6.
C25_Witness ==
    /\ pc = "parsed"
    /\ args.input = <<"t", "r", "u", "e", "\n", "f", "a", "l", "s", "e">>
    /\ tokenize(args.input).tokens =
           << [token |-> [token |-> "True"], pos |-> [line |-> 1, column |-> 1]],
              [token |-> [token |-> "Newline"], pos |-> [line |-> 1, column |-> 5]],
              [token |-> [token |-> "False"], pos |-> [line |-> 2, column |-> 1]],
              [token |-> [token |-> "Eof"], pos |-> [line |-> 2, column |-> 6]] >>

\* A tab, a carriage return, a comment and blanks at the end: the closing
\* bracket is at 4:1 and Eof at 4:4, and the comment, where it is a token,
\* at 2:7.
C25_WitnessBlanks ==
    /\ Parses
    /\ Len(args.input) = 21 /\ args.input[2] = "\t"
    /\ LET tokens == tokenize(args.input).tokens
           kept == syntax_tokenize(args.input).tokens
       IN  /\ tokens[Len(tokens) - 1] =
                  [token |-> [token |-> "RightBracket"], pos |-> [line |-> 4, column |-> 1]]
           /\ tokens[Len(tokens)].pos = [line |-> 4, column |-> 4]
           /\ \A i \in 1..Len(tokens) : tokens[i].token.token # "Comment"
           /\ Len(kept) = Len(tokens) + 1
           /\ \E i \in 1..Len(kept) :
                  kept[i] = [token |-> [token |-> "Comment", c |-> "c"],
                             pos |-> [line |-> 2, column |-> 7]]

(***************************************************************************)
(* merge and comments.                                                     *)
(***************************************************************************)
\* C28: merging the same override a second time changes nothing, comments
\* and key order included: merge(merge(b, o), o) = merge(b, o).
C28_MergeIdempotent ==
    pc = "again" =>
        /\ tree = composed.some
        /\ merge(merge(args.base, args.override_val), args.override_val)
               = merge(args.base, args.override_val)

\* Both sides are objects with different comments at the root and under a
\* shared key that holds an object on both sides, and the override brings a
\* commented key of its own: the second merge leaves all of it as it was.
C28_Witness ==
    /\ pc = "again"
    /\ args.base.kind = "object" /\ args.override_val.kind = "object"
    /\ args.base.comments # <<>> /\ args.override_val.comments # <<>>
    /\ args.base.comments # args.override_val.comments
    /\ \E k \in KeySet(args.base.entries) \cap KeySet(args.override_val.entries) :
          /\ get(args.base.entries, k).kind = "object"
          /\ get(args.override_val.entries, k).kind = "object"
          /\ get(args.base.entries, k).comments # get(args.override_val.entries, k).comments
    /\ \E k \in KeySet(args.override_val.entries) \ KeySet(args.base.entries) :
          get(args.override_val.entries, k).comments # <<>>
    /\ tree = composed.some
    /\ tree # args.base /\ tree # args.override_val

\* The comment lists of a tree, node by node.
RECURSIVE CommentsAt(_)
CommentsAt(v) ==
    [comments |-> v.comments,
     under |-> IF v.kind = "object"
               THEN [i \in 1..Len(v.entries) |->
                        <<v.entries[i][1], CommentsAt(v.entries[i][2])>>]
               ELSE IF v.kind = "array"
               THEN [i \in 1..Len(v.items) |-> CommentsAt(v.items[i])]
               ELSE <<>>]

\* The comments of the merged node t and below, told from those of b and o.
RECURSIVE CommentsMerged(_, _, _)
CommentsMerged(b, o, t) ==
    IF b.kind = "object" /\ o.kind = "object"
    THEN /\ t.kind = "object"
         /\ t.comments = b.comments
         /\ \A k \in KeySet(o.entries) :
               /\ contains_key(t.entries, k)
               /\ IF contains_key(b.entries, k)
                  THEN CommentsMerged(get(b.entries, k), get(o.entries, k),
                                      get(t.entries, k))
                  ELSE CommentsAt(get(t.entries, k)) = CommentsAt(get(o.entries, k))
         /\ \A k \in KeySet(b.entries) \ KeySet(o.entries) :
               /\ contains_key(t.entries, k)
               /\ CommentsAt(get(t.entries, k)) = CommentsAt(get(b.entries, k))
    ELSE CommentsAt(t) = CommentsAt(o)

\* C29: where base and override are both Objects the merged node keeps the
\* base's comments and the override's are dropped, at every level; where the
\* override replaces the base, or brings a new key, the node carries the
\* override's comments and the base's are dropped.
C29_MergeComments ==
    pc = "done" => CommentsMerged(args.base, args.override_val, tree)

\* Comments that differ at every place: the root keeps the base's, the nested
\* object under the shared key keeps the base's, and the new key carries the
\* override's.
C29_Witness ==
    /\ pc = "done"
    /\ args.base.kind = "object" /\ args.override_val.kind = "object"
    /\ args.override_val.comments = <<"c8">>
    /\ args.base.comments = <<"c0">>
    /\ tree.comments = <<"c0">>
    /\ contains_key(args.base.entries, "a")
    /\ get(args.base.entries, "a").kind = "object"
    /\ get(args.base.entries, "a").comments = <<"c2">>
    /\ get(tree.entries, "a").comments = <<"c2">>
    /\ ~contains_key(args.base.entries, "c")
    /\ get(tree.entries, "c").comments = <<"c7">>

\* A commented leaf replaces a commented object, and a commented object a
\* commented leaf: the base's comments are gone.
C29_WitnessReplaced ==
    /\ pc = "done"
    /\ args.base.comments # <<>> /\ args.override_val.comments # <<>>
    /\ args.base.comments # args.override_val.comments
    /\ args.base.kind = "object" /\ args.override_val.kind # "object"
    /\ tree.comments = args.override_val.comments

\* An object with comments merged into itself: nothing is doubled.
C28_WitnessSelf ==
    /\ pc = "again"
    /\ args.base = args.override_val
    /\ args.base.kind = "object" /\ args.base.comments = <<"c3", "c4">>
    /\ tree = args.base

(***************************************************************************)
(* resolve on a tree without directives.                                   *)
(***************************************************************************)
\* C26: on a tree with no `extends` and no `include` key at any level,
\* resolve reads no file at any moment, returns Ok, and leaves the tree as
\* it was: kinds, key order, elements and comments.
C26_NoDirectiveNoChange ==
    ~HasDirectiveKey(args.value) =>
        /\ reads = <<>>
        /\ \A j \in 1..Len(stack) : stack[j].fn = "resolve_recursive" /\ stack[j].depth = 0
        /\ pc # "done" => tree = args.value
        /\ pc = "done" => /\ ret.err = "Ok"
                          /\ tree = args.value
                          /\ CommentsAt(tree) = CommentsAt(args.value)

\* The call has returned for a tree of nested objects and arrays with
\* comments at three levels, while files exist that its strings name.
C26_Witness ==
    /\ pc = "done" /\ ret.err = "Ok"
    /\ ~HasDirectiveKey(args.value)
    /\ args.value.kind = "object" /\ args.value.comments = <<"c0", "c1">>
    /\ Keys(args.value.entries) = <<"b", "a", "Include", "extends_">>
    /\ get(args.value.entries, "b").items[1].comments = <<"c3">>
    /\ <<"cfg", "f1">> \in DOMAIN files
    /\ tree = args.value

\* An array at the root, objects three arrays down.
C26_WitnessArray ==
    /\ pc = "done" /\ ret.err = "Ok"
    /\ args.value.kind = "array" /\ Len(args.value.items) = 3
    /\ ~HasDirectiveKey(args.value)
    /\ tree = args.value

(***************************************************************************)
(* Termination of resolve.  The call runs on one thread and nothing in it  *)
(* waits: a step that can be taken is taken, which is weak fairness of the *)
(* steps of the run.                                                       *)
(***************************************************************************)
LiveChoices ==
    { Absent, Unparsable,
      Document(object(<< <<"include", string("f1")>> >>)),
      Document(object(<< <<"extends", string("f2")>>, <<"include", string("f3")>> >>)),
      Document(object(<< <<"B", integer(5)>>, <<"extends", string("f3")>> >>)),
      Document(object(<< <<"include", string("f2")>>, <<"B", integer(4)>> >>)),
      Document(object(<< <<"S", object(<< <<"h", integer(1)>>, <<"p", integer(1)>> >>)>>,
                         <<"n", object(<< <<"include", string("f3")>> >>)>> >>)),
      Document(object(<< <<"A", integer(1)>>, <<"B", integer(1)>> >>)),
      Document(array(<<integer(1)>>)) }

LiveRoots ==
    { object(<< <<"include", string("f1")>> >>),
      object(<< <<"extends", string("f1")>>, <<"include", string("f2")>>,
                <<"C", integer(3)>> >>),
      object(<< <<"x", object(<< <<"include", string("f1")>> >>)>>,
                <<"y", array(<< object(<< <<"extends", string("f2")>>,
                                          <<"B", integer(9)>> >>) >>)>> >>),
      array(<< object(<< <<"include", string("f3")>> >>), integer(1) >>) }

\* The runs whose termination is checked: every file of cfg absent,
\* unparsable, acyclic, or naming itself or the others.
InitResolveLive ==
    /\ pc = "ready"
    /\ \/ \E choice \in [FileNames -> LiveChoices], root \in LiveRoots :
             /\ files = FileSystem(choice)
             /\ args = [value |-> root, base_path |-> BaseDir]
       \/ \E c \in LiveChoices, root \in PathDocs :
             /\ files = FileSystem([n \in FileNames |-> c])
             /\ args = [value |-> root, base_path |-> BaseDir]
    /\ tree = args.value
    /\ ret = None
    /\ reads = <<>>
    /\ stack = <<>>
    /\ composed = None
    /\ env = NoEnvironment

SpecResolveLive == InitResolveLive /\ [][NextResolve]_vars /\ WF_vars(NextResolve)

\* The files being loaded at this moment, outermost first.
HopPath ==
    [i \in 1..Cardinality({j \in 1..Len(stack) : stack[j].fn = "load_and_resolve"}) |->
        LET j == CHOOSE k \in 1..Len(stack) :
                    /\ stack[k].fn = "load_and_resolve"
                    /\ Hops(k) = i - 1
        IN  stack[j].include_path]

\* No path of file hops is longer than MAX_DEPTH + 1, and a call that has
\* returned gave Ok or one of the errors of IncludeError.
HopsBounded ==
    /\ Len(HopPath) <= MAX_DEPTH + 1
    /\ \A j \in 1..Len(stack) : stack[j].depth <= MAX_DEPTH + 1
    /\ pc = "done" =>
          ret.err \in {"Ok", "IoError", "ParseError", "InvalidIncludeTarget",
                       "RecursionLimitExceeded"}

\* C27: resolve terminates, cycles among the files included: a path of file
\* hops never holds more than 11 files, and every call returns, with Ok or
\* with an IncludeError.
C27_Terminates == [](HopsBounded) /\ <>(pc = "done")

\* A file that includes itself: it is being loaded for the eleventh time
\* inside its own loading, and the call returns RecursionLimitExceeded.
C27_Witness ==
    /\ pc = "done" /\ ret.err = "RecursionLimitExceeded"
    /\ args.value = object(<< <<"include", string("f1")>> >>)
    /\ <<"cfg", "f1">> \in DOMAIN files
    /\ files[<<"cfg", "f1">>] = Document(object(<< <<"include", string("f1")>> >>))
    /\ reads = [i \in 1..(MAX_DEPTH + 1) |-> <<"cfg", "f1">>]

\* The same file eleven times on the path of hops.
C27_WitnessPath ==
    /\ pc = "running"
    /\ HopPath = [i \in 1..(MAX_DEPTH + 1) |-> <<"cfg", "f1">>]

(***************************************************************************)
(* The tree a failed resolve leaves to its caller.                         *)
(***************************************************************************)
\* The entries of a map that are not directives, in the map's order.
Locals(m) == SelectSeq(m, LAMBDA e : e[1] \notin DirectiveKeys)

OwnDirective(v) ==
    v.kind = "object" /\ \E i \in 1..Len(v.entries) : v.entries[i][1] \in DirectiveKeys

\* after is what a completed resolve made of before: no directive is left
\* in it, a node that had none is as it was, and an Object that had one
\* still holds its local keys, among those of the files merged into it.
Processed(before, after) ==
    /\ ~HasDirectiveKey(after)
    /\ ~HasDirectiveKey(before) => after = before
    /\ after.kind = before.kind
    /\ after.comments = before.comments
    /\ before.kind = "object" =>
          KeySet(Locals(before.entries)) \subseteq KeySet(after.entries)
    /\ before.kind = "array" => Len(after.items) = Len(before.items)

\* after is what a resolve that failed inside before left of it: somewhere
\* in it is the Object N whose directive failed.  N and the Objects above
\* it have lost their directive keys and kept their local fields; what was
\* visited before the failure is processed, what comes after it is as it
\* was.
RECURSIVE FailedIn(_, _)
FailedIn(before, after) ==
    IF before.kind = "object"
    THEN LET locals == Locals(before.entries)
         IN  /\ after.kind = "object"
             /\ after.comments = before.comments
             /\ Keys(after.entries) = Keys(locals)
             /\ \E i \in 1..(Len(locals) + 1) :
                   /\ \A j \in 1..(i - 1) :
                         Processed(locals[j][2], after.entries[j][2])
                   /\ \A j \in (i + 1)..Len(locals) :
                         after.entries[j][2] = locals[j][2]
                   /\ IF i <= Len(locals)
                      THEN FailedIn(locals[i][2], after.entries[i][2])
                      ELSE OwnDirective(before)
    ELSE IF before.kind = "array"
    THEN /\ after.kind = "array"
         /\ after.comments = before.comments
         /\ Len(after.items) = Len(before.items)
         /\ \E i \in 1..Len(before.items) :
               /\ \A j \in 1..(i - 1) : Processed(before.items[j], after.items[j])
               /\ \A j \in (i + 1)..Len(before.items) : after.items[j] = before.items[j]
               /\ FailedIn(before.items[i], after.items[i])
    ELSE FALSE

\* C30: a failed resolve does not roll back.  The Object whose directive
\* failed, and every Object above it, is left without its directive keys
\* and with its local fields, resolved; the nodes visited before hold what
\* was merged into them.
C30_NoRollback ==
    (pc = "done" /\ ret.err # "Ok") =>
        /\ FailedIn(args.value, tree)
        /\ tree # args.value

\* x included f1 and holds its fields; the element of y then failed on a
\* missing f2: it is left with its local field and without its `extends`.
C30_Witness ==
    /\ pc = "done" /\ ret.err = "IoError"
    /\ args.value =
           object(<< <<"x", object(<< <<"include", string("f1")>> >>)>>,
                     <<"y", array(<< object(<< <<"extends", string("f2")>>,
                                               <<"B", integer(9)>> >>) >>)>> >>)
    /\ <<"cfg", "f1">> \in DOMAIN files
    /\ files[<<"cfg", "f1">>] =
           Document(object(<< <<"A", integer(1)>>, <<"B", integer(1)>> >>))
    /\ tree =
           object(<< <<"x", object(<< <<"A", integer(1)>>, <<"B", integer(1)>> >>)>>,
                     <<"y", array(<< object(<< <<"B", integer(9)>> >>) >>)>> >>)

\* The root's own `extends` is not a string: its field x was resolved first
\* and stays resolved, and the directive is gone.
C30_WitnessOwnDirective ==
    /\ pc = "done" /\ ret.err = "InvalidIncludeTarget"
    /\ args.value =
           object(<< <<"extends", integer(5)>>,
                     <<"x", object(<< <<"include", string("f1")>> >>)>> >>)
    /\ <<"cfg", "f1">> \in DOMAIN files
    /\ files[<<"cfg", "f1">>] =
           Document(object(<< <<"A", integer(1)>>, <<"B", integer(1)>> >>))
    /\ tree = object(<< <<"x", object(<< <<"A", integer(1)>>, <<"B", integer(1)>> >>)>> >>)

====
